---------------------------- MODULE Spec2Model ----------------------------
(***************************************************************************)
(* Farm ledger: the sync coordinator of App (login pull, debounced push,   *)
(* manual pull), the event reducers (liability payment, animal log,        *)
(* inventory movement), the account-balance aggregate, backup and restore  *)
(* and the Dashboard's figures.                                            *)
(*                                                                         *)
(* One module, several specifications over disjoint groups of variables:   *)
(*   Spec         the sync coordinator (App effects + ApiService)          *)
(*   SpecPayment  LiabilityManager.handleRecordPayment through App         *)
(*   SpecAnimals  AnimalManager + App.handleRecordAnimalLog                *)
(*   SpecInventory InventoryManager + App onRecordMovement                 *)
(*   SpecBalance  AccountRegistry.accountBalances                          *)
(*   SpecBackup   Settings.handleExport / handleImport                     *)
(*   SpecFailure  the sync coordinator with a store that can fail          *)
(*   SpecMetrics, SpecDebt  the memos of Dashboard                         *)
(*   SpecTop      the top expense categories of Dashboard                  *)
(*   SpecStatus   the due-date status of Dashboard and LiabilityManager    *)
(*   SpecRecords  TransactionPage and the other record screens together    *)
(*   SpecEdit     the species and item forms while the session syncs       *)
(*   SpecSidebar  the sidebar section of Settings                          *)
(* A specification leaves the variables of the other groups at their idle  *)
(* values.                                                                 *)
(***************************************************************************)
EXTENDS Integers, Sequences, FiniteSets, TLC

VARIABLES
    \* ---- sync coordinator (src/sw.js App, src/services/apiService.ts)
    user,           \* App.user: NoUser or the email of the signed-in user
    data,           \* App.data, reduced to data.transactions: a sequence of ids
    remote,         \* localStorage 'farm_cloud_v1:' + email: snapshot or NoData
    timers,         \* pending setTimeout callbacks of the push effect
    syncTimeoutRef, \* syncTimeoutRef.current: id of the last timer set, 0 = null
    pushes,         \* ApiService.pushData calls in flight, in start order
    pulls,          \* ApiService.pullData calls in flight, in start order
    isSyncing,      \* App.isSyncing, shown by Layout
    settingsSyncing,\* Settings.isSyncing of the mounted Settings instance
    inOrder,        \* transport property: pushes complete in the order started
    nextId,         \* next fresh transaction id (crypto.randomUUID)
    ops,            \* user commands so far (sign-in, logout, mutation, manual pull)
    quiet,          \* observer: ticks since the last mutation, capped at Debounce
    burst,          \* observer: mutations since the last push start, each within
                    \*           the window of the previous one
    sessionEdits,   \* observer: mutations since the session began
    ev,             \* observer: the last operation and what it saw
    \* ---- event reducers (App.data with its collections, and the forms)
    farm,           \* App.data as the record of its collections
    cloud,          \* the snapshot stored for the user: NoData or Saved(farm)
    showPayModal,   \* LiabilityManager.showPayModal: NoModal or a liability
    paymentAmount,  \* LiabilityManager.paymentAmount: the text of the input
    paymentCategory,\* LiabilityManager.paymentCategory: an id, NoId = ''
    paymentAccount, \* LiabilityManager.paymentAccount: an id, NoId = ''
    loginPull,      \* the pull of the login effect has not resolved yet
    editingSpecies, \* AnimalManager.editingSpecies: NoModal or a species
    editingItem,    \* InventoryManager.editingItem: NoModal or an item
    balances,       \* AccountRegistry.accountBalances as last computed
    transactionForm,\* TransactionPage.showForm with the state of TransactionForm:
                    \* NoModal or the form
    \* ---- Settings: backup and restore
    backupFile,     \* the text of the last file handleExport downloaded
    exported,       \* observer: App.data when that file was made
    reading,        \* the text the FileReader of handleImport is reading
    importError,    \* Settings.importError: NoText or the message
    isImporting,    \* Settings.isImporting
    now,            \* the clock, as new Date() reads it
    \* ---- Dashboard
    dashboard,      \* the memos of the mounted Dashboard, NoArg when not shown
    timeZone,       \* the browser's offset from UTC
    liabilityRows   \* the date status of the rows LiabilityManager shows, NoArg
                    \* when it is not shown

\* Variables of the sync coordinator alone
syncOnly == <<user, data, remote, timers, syncTimeoutRef, pushes, pulls,
              isSyncing, settingsSyncing, inOrder, ops, quiet, burst, sessionEdits>>

\* Variables of the event reducers alone
payVars == <<showPayModal, paymentAmount, paymentCategory, paymentAccount>>
backupVars == <<backupFile, exported, reading, importError, isImporting, now>>
dashVars == <<dashboard, timeZone, liabilityRows>>
ledgerOnly == <<farm, cloud, loginPull, payVars, editingSpecies, editingItem, balances,
                transactionForm, backupVars, dashVars>>

\* What the operations of one screen leave alone
payOther == <<syncOnly, transactionForm, editingSpecies, editingItem, balances,
    backupVars, dashVars>>
animalOther == <<syncOnly, transactionForm, cloud, loginPull, payVars, editingItem, balances,
    backupVars, dashVars>>
inventoryOther == <<syncOnly, transactionForm, cloud, loginPull, payVars, editingSpecies, balances,
    backupVars, dashVars>>
balanceOther == <<syncOnly, transactionForm, cloud, loginPull, payVars, editingSpecies, editingItem,
    backupVars, dashVars>>
backupOther == <<syncOnly, transactionForm, cloud, loginPull, payVars, editingSpecies, editingItem, balances,
    dashVars>>
dashOther == <<syncOnly, transactionForm, cloud, loginPull, payVars, editingSpecies, editingItem, balances,
    backupFile, exported, reading, importError, isImporting, liabilityRows>>
rowsOther == <<syncOnly, transactionForm, cloud, loginPull, payVars, editingSpecies, editingItem, balances,
    backupFile, exported, reading, importError, isImporting, dashboard>>

vars == <<syncOnly, ledgerOnly, nextId, ev>>

-----------------------------------------------------------------------------
(* Bounds of the model *)
MaxOps == 4

(* Program constants: one tick is 1000 ms *)
Debounce == 2

Users == {"a", "b"}
NoUser == "none"

\* localStorage.getItem: null, or the one snapshot saved under the key
NoData == << >>
Saved(d) == <<d>>

\* What earlier runs of the application left in the store: a snapshot with one
\* transaction under "a", nothing under "b"
StoredData(u) == IF u = "a" THEN Saved(<<11>>) ELSE NoData

\* App's initial data: transactions: []
DefaultData == << >>


Min(x, y) == IF x <= y THEN x ELSE y
Max(x, y) == IF x >= y THEN x ELSE y

RemoveAt(s, i) == [j \in 1..(Len(s) - 1) |-> IF j < i THEN s[j] ELSE s[j + 1]]

\* What the last operation was and saw: found = a remote snapshot was found (for a
\* logout: a push was scheduled), changed = it replaced the local snapshot,
\* n = the mutations a starting push coalesces
Event(op, email, kind, found, changed, n) ==
    [op |-> op, email |-> email, kind |-> kind, found |-> found,
     changed |-> changed, n |-> n]

Idle == Event("", NoUser, "", FALSE, FALSE, 0)

-----------------------------------------------------------------------------
(* The push effect of App: useEffect(..., [data, user]) *)

\* Faulty variant: the scheduled push is never cleared
ClearTimeoutNoop(ts, ref) == ts

\* clearTimeout(syncTimeoutRef.current): no effect on a timer that has fired
ClearTimeout(ts, ref) == {t \in ts : t.id # ref}

\* The effect's cleanup followed by the effect, for the new (user, data)
\* setTimeout returns an id that no pending timer has
TimerId(ts) == CHOOSE n \in 1..(Cardinality(ts) + 1) : \A t \in ts : t.id # n

\* Faulty variant: a new push is scheduled without clearing the one already scheduled
PushEffectTimersNoClear(ts, ref, u, d) ==
    IF u = NoUser
    THEN ClearTimeout(ts, ref)
    ELSE ts \cup {[id |-> TimerId(ts), email |-> u, data |-> d, left |-> Debounce]}

\* Faulty variant: a push already scheduled is kept as it is, with the snapshot it has
PushEffectTimersStale(ts, ref, u, d) ==
    IF u = NoUser
    THEN ClearTimeout(ts, ref)
    ELSE IF ts # {}
         THEN ts
         ELSE {[id |-> TimerId(ts), email |-> u, data |-> d, left |-> Debounce]}

\* The effect's cleanup followed by the effect, for the new (user, data)
PushEffectTimers(ts, ref, u, d) ==
    IF u = NoUser
    THEN ClearTimeout(ts, ref)
    ELSE LET kept == ClearTimeout(ts, ref)
         IN kept \cup {[id |-> TimerId(kept), email |-> u, data |-> d, left |-> Debounce]}

PushEffectRef(ts, ref, u) == IF u = NoUser THEN ref ELSE TimerId(ClearTimeout(ts, ref))

\* Faulty variant: the stored snapshot is merged into the local one
ApplyPullMerge(local, slot) == IF slot # NoData THEN local \o slot[1] ELSE local

\* if (cloudData) setData(cloudData): a found snapshot replaces the local one
ApplyPull(local, slot) == IF slot # NoData THEN slot[1] ELSE local

\* Settings unmounts: the pulls it started can no longer reach its isSyncing
Orphan(ps) == [i \in 1..Len(ps) |-> [ps[i] EXCEPT !.live = FALSE]]

-----------------------------------------------------------------------------
(* App.data with its collections *)

\* What the reducers' observer records: the operation, the record it was given
\* and the number it was given
LedgerEvent(op, arg, n) == [op |-> op, arg |-> arg, n |-> n]
NoArg == << >>

NoId == 0
NoModal == << >>
NoText == << >>
Text(n) == <<n>>

\* INITIAL_CATEGORIES of constants.tsx: one category of each type
InitialCategories ==
    <<[id |-> 91, type |-> "INCOME"], [id |-> 92, type |-> "EXPENSE"]>>

\* MODULE_REGISTRY.map(m => ({ id: m.id, visible: true })) for two modules
InitialSidebar == <<[id |-> "dashboard", visible |-> TRUE], [id |-> "reports", visible |-> TRUE]>>

\* The data App starts with
InitialFarm ==
    [transactions |-> << >>, categories |-> InitialCategories, accounts |-> << >>,
     animalSpecies |-> << >>, animalLogs |-> << >>, inventoryItems |-> << >>,
     inventoryMovements |-> << >>, assets |-> << >>, liabilities |-> << >>,
     sidebarConfig |-> InitialSidebar, isSidebarCollapsed |-> FALSE]

NoFile == << >>

\* Settings as it mounts, and nothing downloaded yet
BackupIdle ==
    /\ backupFile = NoFile
    /\ exported = NoArg
    /\ reading = NoFile
    /\ importError = NoText
    /\ isImporting = FALSE
    /\ now = 0

DashboardIdle ==
    /\ dashboard = NoArg
    /\ timeZone = 0
    /\ liabilityRows = NoArg

\* The reducers' variables when the specification is about something else
LedgerIdle ==
    /\ farm = InitialFarm
    /\ cloud = NoData
    /\ loginPull = TRUE
    /\ showPayModal = NoModal
    /\ paymentAmount = NoText
    /\ paymentCategory = NoId
    /\ paymentAccount = NoId
    /\ editingSpecies = NoModal
    /\ editingItem = NoModal
    /\ balances = << >>
    /\ transactionForm = NoModal
    /\ BackupIdle
    /\ DashboardIdle

\* The sync coordinator's variables when the specification is about the reducers
SyncIdle ==
    /\ user = "a"
    /\ data = DefaultData
    /\ remote = [u \in Users |-> NoData]
    /\ timers = {}
    /\ syncTimeoutRef = 0
    /\ pushes = << >>
    /\ pulls = << >>
    /\ isSyncing = FALSE
    /\ settingsSyncing = FALSE
    /\ inOrder = TRUE
    /\ ops = 0
    /\ quiet = Debounce
    /\ burst = 0
    /\ sessionEdits = 0

-----------------------------------------------------------------------------
(* Sync coordinator: initial states and operations *)

\* A page load with no active_user saved: the sign-in page; the store holds
\* what earlier runs left
SyncInit ==
    /\ user = NoUser
    /\ data = DefaultData
    /\ remote = [u \in Users |-> StoredData(u)]
    /\ inOrder \in BOOLEAN
    /\ timers = PushEffectTimers({}, 0, user, data)
    /\ syncTimeoutRef = PushEffectRef({}, 0, user)
    /\ pushes = << >>
    /\ pulls = IF user = NoUser THEN << >>
               ELSE <<[email |-> user, kind |-> "login", live |-> FALSE]>>
    /\ isSyncing = (user # NoUser)
    /\ settingsSyncing = FALSE
    /\ nextId = 1
    /\ ops = 0
    /\ quiet = Debounce
    /\ burst = 0
    /\ sessionEdits = 0
    /\ ev = Idle
    /\ LedgerIdle

\* SignIn's onSignIn = setUser: the pull effect starts loadFromCloud, the push
\* effect schedules a push of the data the application holds
SignIn(u) ==
    /\ user = NoUser
    /\ ops < MaxOps
    /\ user' = u
    /\ ops' = ops + 1
    /\ pulls' = Append(pulls, [email |-> u, kind |-> "login", live |-> FALSE])
    /\ isSyncing' = TRUE
    /\ timers' = PushEffectTimers(timers, syncTimeoutRef, u, data)
    /\ syncTimeoutRef' = PushEffectRef(timers, syncTimeoutRef, u)
    /\ sessionEdits' = 0
    /\ ev' = Event("signIn", u, "login", FALSE, FALSE, 0)
    /\ UNCHANGED <<data, remote, pushes, settingsSyncing, inOrder, nextId,
                   quiet, burst>>
    /\ UNCHANGED ledgerOnly

\* handleLogout: setUser(null) after window.confirm; the push effect's cleanup
\* clears the scheduled push, calls in flight go on
handleLogout(confirm) ==
    /\ user # NoUser
    /\ ops < MaxOps
    /\ IF confirm
       THEN /\ user' = NoUser
            /\ ops' = ops + 1
            /\ timers' = PushEffectTimers(timers, syncTimeoutRef, NoUser, data)
            /\ pulls' = Orphan(pulls)
            /\ settingsSyncing' = FALSE
            /\ burst' = 0
            /\ ev' = Event("logout", user, "", timers # {}, FALSE, 0)
       ELSE /\ ev' = Event("logoutDeclined", user, "", FALSE, FALSE, 0)
            /\ UNCHANGED <<user, timers, pulls, settingsSyncing, burst, ops>>
    /\ UNCHANGED <<data, remote, syncTimeoutRef, pushes, isSyncing, inOrder,
                   nextId, quiet, sessionEdits>>
    /\ UNCHANGED ledgerOnly

\* A local mutation: handleAddTransaction appends a record with a fresh id;
\* the push effect re-runs for the new data
handleAddTransaction ==
    /\ user # NoUser
    /\ ops < MaxOps
    /\ ops' = ops + 1
    /\ data' = Append(data, nextId)
    /\ nextId' = nextId + 1
    /\ timers' = PushEffectTimers(timers, syncTimeoutRef, user, data')
    /\ syncTimeoutRef' = PushEffectRef(timers, syncTimeoutRef, user)
    /\ quiet' = 0
    /\ burst' = IF burst > 0 /\ quiet < Debounce THEN burst + 1 ELSE 1
    /\ sessionEdits' = sessionEdits + 1
    /\ ev' = Event("mutate", user, "", timers # {}, TRUE, 0)
    /\ UNCHANGED <<user, remote, pushes, pulls, isSyncing, settingsSyncing, inOrder>>
    /\ UNCHANGED ledgerOnly

\* One tick of time: no timer that is due is overtaken
Tick ==
    /\ \A t \in timers : t.left > 0
    /\ timers # {} \/ quiet < Debounce
    /\ timers' = {[t EXCEPT !.left = t.left - 1] : t \in timers}
    /\ quiet' = Min(quiet + 1, Debounce)
    /\ ev' = Idle
    /\ UNCHANGED <<user, data, remote, syncTimeoutRef, pushes, pulls,
                   isSyncing, settingsSyncing, inOrder, nextId, ops,
                   burst, sessionEdits>>
    /\ UNCHANGED ledgerOnly

\* The timeout callback: setIsSyncing(true), pushData(user.email, data) with the
\* email and data of the render that scheduled it
TimerFire(t) ==
    /\ t \in timers
    /\ t.left = 0
    /\ timers' = timers \ {t}
    /\ isSyncing' = TRUE
    /\ pushes' = Append(pushes, [email |-> t.email, data |-> t.data])
    /\ burst' = 0
    /\ ev' = Event("pushStart", t.email, "push", FALSE, FALSE, burst)
    /\ UNCHANGED <<user, data, remote, syncTimeoutRef, pulls,
                   settingsSyncing, inOrder, nextId, ops, quiet,
                   sessionEdits>>
    /\ UNCHANGED ledgerOnly

\* pushData resolves: localStorage.setItem(key, JSON.stringify(data)), then the
\* callback's finally: setIsSyncing(false)
PushComplete(i) ==
    /\ i \in 1..Len(pushes)
    /\ inOrder => i = 1
    /\ remote' = [remote EXCEPT ![pushes[i].email] = Saved(pushes[i].data)]
    /\ pushes' = RemoveAt(pushes, i)
    /\ isSyncing' = FALSE
    /\ ev' = Event("pushDone", pushes[i].email, "push", FALSE, FALSE, 0)
    /\ UNCHANGED <<user, data, timers, syncTimeoutRef, pulls,
                   settingsSyncing, inOrder, nextId, ops, quiet,
                   burst, sessionEdits>>
    /\ UNCHANGED ledgerOnly

\* pullData resolves with what the store holds then: loadFromCloud (login) or
\* handleCloudPull (manual) replaces the data when a snapshot was found, which
\* re-runs the push effect; then it clears its own syncing flag
PullComplete(i) ==
    /\ i \in 1..Len(pulls)
    /\ LET p == pulls[i]
           found == remote[p.email] # NoData
           cloudData == IF found THEN remote[p.email][1] ELSE DefaultData
       IN /\ data' = ApplyPull(data, remote[p.email])
          /\ timers' = IF found
                       THEN PushEffectTimers(timers, syncTimeoutRef, user, cloudData)
                       ELSE timers
          /\ syncTimeoutRef' = IF found THEN PushEffectRef(timers, syncTimeoutRef, user)
                               ELSE syncTimeoutRef
          /\ isSyncing' = IF p.kind = "login" THEN FALSE ELSE isSyncing
          /\ settingsSyncing' = IF p.kind = "manual" /\ p.live THEN FALSE
                                ELSE settingsSyncing
          /\ burst' = IF found THEN 0 ELSE burst
          /\ ev' = Event("pullDone", p.email, p.kind, found, data' # data, 0)
    /\ pulls' = RemoveAt(pulls, i)
    /\ UNCHANGED <<user, remote, pushes, inOrder, nextId, ops,
                   quiet, sessionEdits>>
    /\ UNCHANGED ledgerOnly

\* Settings.handleCloudPull: after window.confirm, its own setIsSyncing(true) and
\* pullData(user.email) at once; the button is disabled while its flag is set
handleCloudPull(confirm) ==
    /\ user # NoUser
    /\ ~settingsSyncing
    /\ ops < MaxOps
    /\ IF confirm
       THEN /\ settingsSyncing' = TRUE
            /\ pulls' = Append(pulls, [email |-> user, kind |-> "manual", live |-> TRUE])
            /\ ops' = ops + 1
            /\ ev' = Event("manualPull", user, "manual", FALSE, FALSE, 0)
       ELSE /\ ev' = Event("manualPullDeclined", user, "manual", FALSE, FALSE, 0)
            /\ UNCHANGED <<settingsSyncing, pulls, ops>>
    /\ UNCHANGED <<user, data, remote, timers, syncTimeoutRef, pushes,
                   isSyncing, inOrder, nextId, quiet, burst, sessionEdits>>
    /\ UNCHANGED ledgerOnly

Init == SyncInit

Next ==
    \/ \E u \in Users : SignIn(u)
    \/ \E c \in BOOLEAN : handleLogout(c)
    \/ handleAddTransaction
    \/ Tick
    \/ \E t \in timers : TimerFire(t)
    \/ \E i \in 1..Len(pushes) : PushComplete(i)
    \/ \E i \in 1..Len(pulls) : PullComplete(i)
    \/ \E c \in BOOLEAN : handleCloudPull(c)

Spec == Init /\ [][Next]_vars

\* Time advances, due timers fire and the calls to the store resolve
FairSpec ==
    /\ Spec
    /\ WF_vars(Tick)
    /\ WF_vars(\E t \in timers : TimerFire(t))
    /\ WF_vars(\E i \in 1..Len(pushes) : PushComplete(i))
    /\ WF_vars(\E i \in 1..Len(pulls) : PullComplete(i))

\* pushData rejects (localStorage.setItem throws): nothing is stored; the
\* callback's finally still runs setIsSyncing(false)
PushReject(i) ==
    /\ i \in 1..Len(pushes)
    /\ inOrder => i = 1
    /\ pushes' = RemoveAt(pushes, i)
    /\ isSyncing' = FALSE
    /\ ev' = Event("pushFailed", pushes[i].email, "push", FALSE, FALSE, 0)
    /\ UNCHANGED <<user, data, remote, timers, syncTimeoutRef, pulls,
                   settingsSyncing, inOrder, nextId, ops, quiet,
                   burst, sessionEdits>>
    /\ UNCHANGED ledgerOnly

\* pullData rejects (getItem or JSON.parse throws): loadFromCloud has no
\* try/finally, so the lines after its await do not run; handleCloudPull's
\* finally clears the flag of Settings
PullReject(i) ==
    /\ i \in 1..Len(pulls)
    /\ settingsSyncing' = IF pulls[i].kind = "manual" /\ pulls[i].live THEN FALSE
                          ELSE settingsSyncing
    /\ pulls' = RemoveAt(pulls, i)
    /\ ev' = Event("pullFailed", pulls[i].email, pulls[i].kind, FALSE, FALSE, 0)
    /\ UNCHANGED <<user, data, remote, timers, syncTimeoutRef, pushes, isSyncing,
                   inOrder, nextId, ops, quiet, burst, sessionEdits>>
    /\ UNCHANGED ledgerOnly

NextFailure ==
    \/ \E u \in Users : SignIn(u)
    \/ \E c \in BOOLEAN : handleLogout(c)
    \/ handleAddTransaction
    \/ Tick
    \/ \E t \in timers : TimerFire(t)
    \/ \E i \in 1..Len(pushes) : PushComplete(i)
    \/ \E i \in 1..Len(pulls) : PullComplete(i)
    \/ \E c \in BOOLEAN : handleCloudPull(c)
    \/ \E i \in 1..Len(pushes) : PushReject(i)
    \/ \E i \in 1..Len(pulls) : PullReject(i)

\* The store can fail
SpecFailure == Init /\ [][NextFailure]_vars

\* Faulty variant: the update is merged into the data of the render, not into the state
\* the earlier updates of the same handler produced
UpdateDataStale(prev, updates) ==
    [k \in DOMAIN farm \cup DOMAIN updates |->
        IF k \in DOMAIN updates THEN updates[k] ELSE farm[k]]

\* updateData: setData(prev => ({ ...prev, ...updates }))
UpdateData(prev, updates) ==
    [k \in DOMAIN prev \cup DOMAIN updates |->
        IF k \in DOMAIN updates THEN updates[k] ELSE prev[k]]

\* Faulty variant: the record is taken out and put at the end
ReplaceByIdAtEnd(xs, r) == Append(SelectSeq(xs, LAMBDA x : x.id # r.id), r)

\* xs.map(x => x.id === r.id ? r : x)
ReplaceById(xs, r) == [i \in 1..Len(xs) |-> IF xs[i].id = r.id THEN r ELSE xs[i]]

\* xs.filter(x => x.id !== id)
RemoveById(xs, id) == SelectSeq(xs, LAMBDA x : x.id # id)

\* The store as the reducers see it. A debounced push saves the data
PushSnapshot ==
    /\ cloud # Saved(farm)
    /\ cloud' = Saved(farm)
    /\ ev' = LedgerEvent("push", NoArg, 0)
    /\ UNCHANGED <<farm, loginPull, payVars, nextId>>
    /\ UNCHANGED payOther

\* The pull of the login effect resolves, whatever the route shown
LoginPullSnapshot ==
    /\ loginPull
    /\ loginPull' = FALSE
    /\ farm' = ApplyPull(farm, cloud)
    /\ ev' = LedgerEvent("pull", NoArg, 0)
    /\ UNCHANGED <<cloud, payVars, nextId>>
    /\ UNCHANGED payOther

-----------------------------------------------------------------------------
(* LiabilityManager: recording a payment *)

MaxLiabilities == 1
MaxBalance == 2
MaxAccounts == 1
MaxIds == 3

LiabilityNames == {"Loan"}

\* The amounts the number input can hold: it has a max and no min
Amounts == (0 - 1)..MaxBalance

PaymentDescription(name) == <<"Payment towards: ", name>>

ExpenseCategories(cats) == SelectSeq(cats, LAMBDA c : c.type = "EXPENSE")

\* Leaving the /liabilities route unmounts LiabilityManager: its state is lost
LiabilityManagerFresh ==
    /\ showPayModal' = NoModal
    /\ paymentAmount' = NoText
    /\ paymentCategory' = NoId
    /\ paymentAccount' = NoId

\* Settings.handleCloudPull, reached from the /settings route
ManualPullSnapshot ==
    /\ showPayModal = NoModal
    /\ cloud # NoData
    /\ farm # ApplyPull(farm, cloud)
    /\ farm' = ApplyPull(farm, cloud)
    /\ LiabilityManagerFresh
    /\ ev' = LedgerEvent("pull", NoArg, 0)
    /\ UNCHANGED <<cloud, loginPull, nextId>>
    /\ UNCHANGED payOther

\* AccountRegistry onAdd / onDelete, reached from the /accounts route
onAddAccount ==
    /\ transactionForm = NoModal
    /\ showPayModal = NoModal
    /\ Len(farm.accounts) < MaxAccounts
    /\ nextId <= MaxIds
    /\ farm' = UpdateData(farm, [accounts |-> Append(farm.accounts, [id |-> nextId, name |-> "Cash"])])
    /\ nextId' = nextId + 1
    /\ LiabilityManagerFresh
    /\ ev' = LedgerEvent("edit", NoArg, 0)
    /\ UNCHANGED <<cloud, loginPull>>
    /\ UNCHANGED payOther

\* Faulty variant: the delete cascades to the transactions of the account
onDeleteAccountCascade(id) ==
    /\ transactionForm = NoModal
    /\ showPayModal = NoModal
    /\ \E i \in 1..Len(farm.accounts) : farm.accounts[i].id = id
    /\ farm' = UpdateData(farm, [accounts |-> RemoveById(farm.accounts, id),
                   transactions |-> SelectSeq(farm.transactions,
                                              LAMBDA t : t.accountId # id)])
    /\ LiabilityManagerFresh
    /\ ev' = LedgerEvent("edit", NoArg, 0)
    /\ UNCHANGED <<cloud, loginPull, nextId>>
    /\ UNCHANGED payOther

onDeleteAccount(id) ==
    /\ transactionForm = NoModal
    /\ showPayModal = NoModal
    /\ \E i \in 1..Len(farm.accounts) : farm.accounts[i].id = id
    /\ farm' = UpdateData(farm, [accounts |-> RemoveById(farm.accounts, id)])
    /\ LiabilityManagerFresh
    /\ ev' = LedgerEvent("edit", NoArg, 0)
    /\ UNCHANGED <<cloud, loginPull, nextId>>
    /\ UNCHANGED payOther

\* LiabilityManager.handleSubmit with no liability being edited: onAdd
onAddLiability(name, balance, installment) ==
    /\ showPayModal = NoModal
    /\ Len(farm.liabilities) < MaxLiabilities
    /\ nextId <= MaxIds
    /\ farm' = UpdateData(farm, [liabilities |-> Append(farm.liabilities,
                   [id |-> nextId, name |-> name, currentBalance |-> balance,
                    installmentAmount |-> installment])])
    /\ nextId' = nextId + 1
    /\ ev' = LedgerEvent("edit", NoArg, 0)
    /\ UNCHANGED <<cloud, loginPull, payVars>>
    /\ UNCHANGED payOther

onDeleteLiability(id) ==
    /\ showPayModal = NoModal
    /\ \E i \in 1..Len(farm.liabilities) : farm.liabilities[i].id = id
    /\ farm' = UpdateData(farm, [liabilities |-> RemoveById(farm.liabilities, id)])
    /\ ev' = LedgerEvent("edit", NoArg, 0)
    /\ UNCHANGED <<cloud, loginPull, payVars, nextId>>
    /\ UNCHANGED payOther

\* The Pay button of a row, disabled when the balance is <= 0
handleOpenPayModal(liability) ==
    /\ showPayModal = NoModal
    /\ liability.currentBalance > 0
    /\ showPayModal' = liability
    /\ LET defaultAmount == IF liability.installmentAmount > 0
                            THEN Min(liability.installmentAmount, liability.currentBalance)
                            ELSE liability.currentBalance
           expenseCats == ExpenseCategories(farm.categories)
       IN /\ paymentAmount' = Text(defaultAmount)
          /\ paymentCategory' = IF Len(expenseCats) > 0 THEN expenseCats[1].id
                                ELSE paymentCategory
          /\ paymentAccount' = IF Len(farm.accounts) > 0 THEN farm.accounts[1].id
                               ELSE paymentAccount
    /\ ev' = LedgerEvent("edit", NoArg, 0)
    /\ UNCHANGED <<farm, cloud, loginPull, nextId>>
    /\ UNCHANGED payOther

\* Typing into the amount input; clearing it leaves ''
setPaymentAmount(text) ==
    /\ showPayModal # NoModal
    /\ text # paymentAmount
    /\ paymentAmount' = text
    /\ ev' = LedgerEvent("edit", NoArg, 0)
    /\ UNCHANGED <<farm, cloud, loginPull, showPayModal, paymentCategory,
                   paymentAccount, nextId>>
    /\ UNCHANGED payOther

\* The modal's close and Cancel buttons
closePayModal ==
    /\ showPayModal # NoModal
    /\ showPayModal' = NoModal
    /\ ev' = LedgerEvent("edit", NoArg, 0)
    /\ UNCHANGED <<farm, cloud, loginPull, paymentAmount, paymentCategory,
                   paymentAccount, nextId>>
    /\ UNCHANGED payOther

\* Faulty variant: the amount input has no max
PayFormValidNoMax ==
    /\ paymentAmount # NoText
    /\ Len(farm.accounts) > 0
    /\ Len(ExpenseCategories(farm.categories)) > 0

\* What the browser requires of the form before it submits: the amount is
\* required and has max = the balance shown; a required select is satisfied as
\* soon as it has an option that can be selected
PayFormValid ==
    /\ paymentAmount # NoText
    /\ paymentAmount[1] <= showPayModal.currentBalance
    /\ Len(farm.accounts) > 0
    /\ Len(ExpenseCategories(farm.categories)) > 0

\* handleRecordPayment: onUpdate of the liability, then onAddTransaction, both
\* through updateData, in one event
handleRecordPayment ==
    /\ showPayModal # NoModal
    /\ nextId <= MaxIds
    /\ IF ~PayFormValid
       THEN /\ ev' = LedgerEvent("paymentBlocked", showPayModal, 0)
            /\ UNCHANGED <<farm, payVars, nextId>>
       ELSE IF paymentAmount = NoText \/ paymentAccount = NoId
       THEN /\ ev' = LedgerEvent("paymentRefused", showPayModal, 0)
            /\ UNCHANGED <<farm, payVars, nextId>>
       ELSE LET amount == paymentAmount[1]
                newBalance == Max(0, showPayModal.currentBalance - amount)
                updated == UpdateData(farm, [liabilities |->
                               ReplaceById(farm.liabilities,
                                   [showPayModal EXCEPT !.currentBalance = newBalance])])
            IN /\ farm' = UpdateData(updated, [transactions |->
                              Append(farm.transactions,
                                  [id |-> nextId,
                                   description |-> PaymentDescription(showPayModal.name),
                                   amount |-> amount,
                                   categoryId |-> paymentCategory,
                                   accountId |-> paymentAccount,
                                   type |-> "EXPENSE"])])
               /\ nextId' = nextId + 1
               /\ showPayModal' = NoModal
               /\ paymentAmount' = NoText
               /\ ev' = LedgerEvent("payment", showPayModal, amount)
               /\ UNCHANGED <<paymentCategory, paymentAccount>>
    /\ UNCHANGED <<cloud, loginPull>>
    /\ UNCHANGED payOther

PaymentInit ==
    /\ SyncIdle
    /\ LedgerIdle
    /\ nextId = 1
    /\ ev = LedgerEvent("", NoArg, 0)

PaymentNext ==
    \/ onAddAccount
    \/ \E id \in 1..nextId : onDeleteAccount(id)
    \/ \E n \in LiabilityNames, b \in 0..MaxBalance, inst \in 0..1 :
           onAddLiability(n, b, inst)
    \/ \E id \in 1..nextId : onDeleteLiability(id)
    \/ \E i \in 1..Len(farm.liabilities) : handleOpenPayModal(farm.liabilities[i])
    \/ \E a \in Amounts : setPaymentAmount(Text(a))
    \/ setPaymentAmount(NoText)
    \/ closePayModal
    \/ handleRecordPayment
    \/ PushSnapshot
    \/ LoginPullSnapshot
    \/ ManualPullSnapshot

SpecPayment == PaymentInit /\ [][PaymentNext]_vars

-----------------------------------------------------------------------------
(* AnimalManager and App.handleRecordAnimalLog *)

MaxSpecies == 2
MaxQuantity == 2

SpeciesNames == {"Cow", "Hen"}
PopulationChange == {"BOUGHT", "BIRTH", "SOLD", "DEATH"}

\* An id no record has: a selection that went stale
UnknownId == 99

\* The record of the given id in a collection, as a sequence of at most one
FindById(xs, id) == SelectSeq(xs, LAMBDA x : x.id = id)

\* Faulty variant: every log adds its quantity
ChangeAmountUnsigned(type, quantity) == quantity

\* changeAmount of handleRecordAnimalLog
ChangeAmount(type, quantity) ==
    IF type = "BOUGHT" \/ type = "BIRTH" THEN quantity ELSE 0 - quantity

\* Faulty variant: the count is not clamped
NewCountUnclamped(count, type, quantity) == count + ChangeAmount(type, quantity)

\* Math.max(0, s.count + changeAmount)
NewCount(count, type, quantity) == Max(0, count + ChangeAmount(type, quantity))

\* handleAddSpecies with no species being edited: onAddSpecies, count 0
onAddSpecies(name) ==
    /\ transactionForm = NoModal
    /\ editingSpecies = NoModal
    /\ Len(farm.animalSpecies) < MaxSpecies
    /\ nextId <= MaxIds
    /\ farm' = UpdateData(farm, [animalSpecies |-> Append(farm.animalSpecies,
                   [name |-> name, id |-> nextId, count |-> 0])])
    /\ nextId' = nextId + 1
    /\ ev' = LedgerEvent("addSpecies", NoArg, 0)
    /\ UNCHANGED editingSpecies
    /\ UNCHANGED animalOther

\* AnimalManager.handleEditClick: the form opens on the species of the row
handleEditSpeciesClick(s) ==
    /\ transactionForm = NoModal
    /\ editingSpecies = NoModal
    /\ editingSpecies' = s
    /\ ev' = LedgerEvent("editSpeciesClick", s, 0)
    /\ UNCHANGED <<farm, nextId>>
    /\ UNCHANGED animalOther

\* handleAddSpecies with a species being edited: onUpdateSpecies
onUpdateSpecies(name) ==
    /\ transactionForm = NoModal
    /\ editingSpecies # NoModal
    /\ farm' = UpdateData(farm, [animalSpecies |->
                   ReplaceById(farm.animalSpecies, [editingSpecies EXCEPT !.name = name])])
    /\ editingSpecies' = NoModal
    /\ ev' = LedgerEvent("updateSpecies", editingSpecies, 0)
    /\ UNCHANGED nextId
    /\ UNCHANGED animalOther

onDeleteSpecies(id) ==
    /\ transactionForm = NoModal
    /\ editingSpecies = NoModal
    /\ FindById(farm.animalSpecies, id) # << >>
    /\ farm' = UpdateData(farm, [animalSpecies |-> RemoveById(farm.animalSpecies, id)])
    /\ ev' = LedgerEvent("deleteSpecies", NoArg, 0)
    /\ UNCHANGED <<editingSpecies, nextId>>
    /\ UNCHANGED animalOther

\* AnimalManager.handleRecordLog, then App.handleRecordAnimalLog: the quantity
\* input is required with min 1
handleRecordLog(speciesId, type, quantity) ==
    /\ transactionForm = NoModal
    /\ editingSpecies = NoModal
    /\ quantity >= 1
    /\ nextId <= MaxIds
    /\ IF FindById(farm.animalSpecies, speciesId) = << >>
       THEN /\ ev' = LedgerEvent("logRefused", NoArg, quantity)
            /\ UNCHANGED <<farm, nextId>>
       ELSE /\ farm' = [farm EXCEPT
                   !.animalLogs = Append(farm.animalLogs,
                       [speciesId |-> speciesId, type |-> type, quantity |-> quantity,
                        id |-> nextId]),
                   !.animalSpecies = [i \in 1..Len(farm.animalSpecies) |->
                       IF farm.animalSpecies[i].id = speciesId
                       THEN [farm.animalSpecies[i] EXCEPT
                                !.count = NewCount(farm.animalSpecies[i].count, type, quantity)]
                       ELSE farm.animalSpecies[i]]]
            /\ nextId' = nextId + 1
            /\ ev' = LedgerEvent(type, FindById(farm.animalSpecies, speciesId)[1], quantity)
    /\ UNCHANGED editingSpecies
    /\ UNCHANGED animalOther

AnimalsInit ==
    /\ SyncIdle
    /\ LedgerIdle
    /\ nextId = 1
    /\ ev = LedgerEvent("", NoArg, 0)

AnimalsNext ==
    \/ \E n \in SpeciesNames : onAddSpecies(n)
    \/ \E i \in 1..Len(farm.animalSpecies) : handleEditSpeciesClick(farm.animalSpecies[i])
    \/ \E n \in SpeciesNames : onUpdateSpecies(n)
    \/ \E id \in 1..nextId : onDeleteSpecies(id)
    \/ \E id \in (1..nextId) \cup {UnknownId}, t \in PopulationChange, q \in 1..MaxQuantity :
           handleRecordLog(id, t, q)

SpecAnimals == AnimalsInit /\ [][AnimalsNext]_vars

-----------------------------------------------------------------------------
(* InventoryManager and the /inventory route of App *)

MaxItems == 2

ItemNames == {"Feed", "Seed"}
MovementType == {"IN", "OUT"}

\* handleAddItem with no item being edited: onAddItem, quantity 0
onAddItem(name) ==
    /\ transactionForm = NoModal
    /\ editingItem = NoModal
    /\ Len(farm.inventoryItems) < MaxItems
    /\ nextId <= MaxIds
    /\ farm' = UpdateData(farm, [inventoryItems |-> Append(farm.inventoryItems,
                   [name |-> name, id |-> nextId, quantity |-> 0])])
    /\ nextId' = nextId + 1
    /\ ev' = LedgerEvent("addItem", NoArg, 0)
    /\ UNCHANGED editingItem
    /\ UNCHANGED inventoryOther

\* InventoryManager.handleEditClick: the form opens on the item of the row
handleEditItemClick(item) ==
    /\ transactionForm = NoModal
    /\ editingItem = NoModal
    /\ editingItem' = item
    /\ ev' = LedgerEvent("editItemClick", item, 0)
    /\ UNCHANGED <<farm, nextId>>
    /\ UNCHANGED inventoryOther

\* handleAddItem with an item being edited: onUpdateItem
onUpdateItem(name) ==
    /\ transactionForm = NoModal
    /\ editingItem # NoModal
    /\ farm' = UpdateData(farm, [inventoryItems |->
                   ReplaceById(farm.inventoryItems, [editingItem EXCEPT !.name = name])])
    /\ editingItem' = NoModal
    /\ ev' = LedgerEvent("updateItem", editingItem, 0)
    /\ UNCHANGED nextId
    /\ UNCHANGED inventoryOther

onDeleteItem(id) ==
    /\ transactionForm = NoModal
    /\ editingItem = NoModal
    /\ FindById(farm.inventoryItems, id) # << >>
    /\ farm' = UpdateData(farm, [inventoryItems |-> RemoveById(farm.inventoryItems, id)])
    /\ ev' = LedgerEvent("deleteItem", NoArg, 0)
    /\ UNCHANGED <<editingItem, nextId>>
    /\ UNCHANGED inventoryOther

\* InventoryManager.handleRecordMovement, then App's onRecordMovement: the
\* quantity input is required with min 1
handleRecordMovement(itemId, type, quantity) ==
    /\ transactionForm = NoModal
    /\ editingItem = NoModal
    /\ quantity >= 1
    /\ nextId <= MaxIds
    /\ IF FindById(farm.inventoryItems, itemId) = << >>
       THEN /\ ev' = LedgerEvent("movementRefused", NoArg, quantity)
            /\ UNCHANGED <<farm, nextId>>
       ELSE /\ farm' = UpdateData(farm, [inventoryMovements |->
                           Append(farm.inventoryMovements,
                               [itemId |-> itemId, type |-> type, quantity |-> quantity,
                                id |-> nextId])])
            /\ nextId' = nextId + 1
            /\ ev' = LedgerEvent(type, FindById(farm.inventoryItems, itemId)[1], quantity)
    /\ UNCHANGED editingItem
    /\ UNCHANGED inventoryOther

InventoryInit ==
    /\ SyncIdle
    /\ LedgerIdle
    /\ nextId = 1
    /\ ev = LedgerEvent("", NoArg, 0)

InventoryNext ==
    \/ \E n \in ItemNames : onAddItem(n)
    \/ \E i \in 1..Len(farm.inventoryItems) : handleEditItemClick(farm.inventoryItems[i])
    \/ \E n \in ItemNames : onUpdateItem(n)
    \/ \E id \in 1..nextId : onDeleteItem(id)
    \/ \E id \in (1..nextId) \cup {UnknownId}, t \in MovementType, q \in 1..MaxQuantity :
           handleRecordMovement(id, t, q)

SpecInventory == InventoryInit /\ [][InventoryNext]_vars

-----------------------------------------------------------------------------
(* AccountRegistry.accountBalances *)

MaxTransactions == 3

InitialBalances == {0, 10}
TransactionAmounts == {1, 2}
TransactionType == {"INCOME", "EXPENSE"}

\* Faulty variant: every transaction counts for every account
AccountTransactionsAll(acc, ts) == ts

\* transactions.filter(t => t.accountId === acc.id)
AccountTransactions(acc, ts) == SelectSeq(ts, LAMBDA t : t.accountId = acc.id)

\* accTransactions.forEach(t => ...) from a starting balance, first to last
RECURSIVE ApplyTransactions(_, _)
ApplyTransactions(balance, ts) ==
    IF ts = << >> THEN balance
    ELSE ApplyTransactions(IF ts[1].type = "INCOME" THEN balance + ts[1].amount
                           ELSE balance - ts[1].amount,
                           Tail(ts))

\* accountBalances: the record of balances by account id
accountBalances(accounts, transactions) ==
    [id \in {accounts[i].id : i \in 1..Len(accounts)} |->
        LET acc == FindById(accounts, id)[Len(FindById(accounts, id))]
        IN ApplyTransactions(acc.initialBalance, AccountTransactions(acc, transactions))]

\* xs with the records at i and i + 1 exchanged
SwapAt(xs, i) ==
    [j \in 1..Len(xs) |-> IF j = i THEN xs[i + 1] ELSE IF j = i + 1 THEN xs[i] ELSE xs[j]]

\* A transaction is added (TransactionPage, or a payment, of any account id the
\* form still holds); the balances are computed again
onAddTransaction(accountId, type, amount) ==
    /\ Len(farm.transactions) < MaxTransactions
    /\ farm' = UpdateData(farm, [transactions |-> Append(farm.transactions,
                   [accountId |-> accountId, type |-> type, amount |-> amount])])
    /\ balances' = accountBalances(farm'.accounts, farm'.transactions)
    /\ ev' = LedgerEvent("addTransaction", NoArg, amount)
    /\ UNCHANGED nextId
    /\ UNCHANGED balanceOther

\* The same transactions arrive in another order (onImportData of a snapshot
\* that lists them otherwise); the balances are computed again
onReorderTransactions(i) ==
    /\ i + 1 <= Len(farm.transactions)
    /\ farm.transactions[i] # farm.transactions[i + 1]
    /\ farm' = UpdateData(farm, [transactions |-> SwapAt(farm.transactions, i)])
    /\ balances' = accountBalances(farm'.accounts, farm'.transactions)
    /\ ev' = LedgerEvent("reorder", NoArg, i)
    /\ UNCHANGED nextId
    /\ UNCHANGED balanceOther

\* Two accounts of any initial balances and no transaction yet
BalanceInit ==
    /\ SyncIdle
    /\ \E b1 \in InitialBalances, b2 \in InitialBalances :
           farm = [InitialFarm EXCEPT !.accounts =
                      <<[id |-> 1, initialBalance |-> b1], [id |-> 2, initialBalance |-> b2]>>]
    /\ balances = accountBalances(farm.accounts, farm.transactions)
    /\ cloud = NoData
    /\ loginPull = TRUE
    /\ showPayModal = NoModal
    /\ paymentAmount = NoText
    /\ paymentCategory = NoId
    /\ paymentAccount = NoId
    /\ editingSpecies = NoModal
    /\ editingItem = NoModal
    /\ transactionForm = NoModal
    /\ BackupIdle
    /\ DashboardIdle
    /\ nextId = 3
    /\ ev = LedgerEvent("", NoArg, 0)

BalanceNext ==
    \/ \E id \in {1, 2, UnknownId}, t \in TransactionType, a \in TransactionAmounts :
           onAddTransaction(id, t, a)
    \/ \E i \in 1..MaxTransactions : onReorderTransactions(i)

SpecBalance == BalanceInit /\ [][BalanceNext]_vars

-----------------------------------------------------------------------------
(* Settings: handleExport and handleImport *)

MaxBackups == 1
MaxNewCategories == 1

\* The keys of backupData, in the order handleExport writes them
BackupKeysShort ==
    <<"version", "timestamp", "user", "transactions", "categories", "accounts",
      "animalSpecies", "animalLogs", "inventoryItems", "inventoryMovements",
      "liabilities", "sidebarConfig", "isSidebarCollapsed">>

BackupKeys ==
    <<"version", "timestamp", "user", "transactions", "categories", "accounts",
      "animalSpecies", "animalLogs", "inventoryItems", "inventoryMovements",
      "assets", "liabilities", "sidebarConfig", "isSidebarCollapsed">>

\* backupData: the tag, the time, the user and the props Settings got from
\* {...data}; a prop the data does not have is undefined
BackupData(d, u, t) ==
    [k \in {BackupKeys[i] : i \in 1..Len(BackupKeys)}
           \cap ({"version", "timestamp", "user"} \cup DOMAIN d) |->
        CASE k = "version" -> "1.3"
          [] k = "timestamp" -> t
          [] k = "user" -> u
          [] OTHER -> d[k]]

\* JSON.stringify of an object whose keys were written in the given order: the
\* members "key": value in that order, undefined ones left out
RECURSIVE JSONStringify(_, _)
JSONStringify(obj, keys) ==
    IF keys = << >> THEN << >>
    ELSE (IF Head(keys) \in DOMAIN obj THEN << <<Head(keys), obj[Head(keys)]>> >>
          ELSE << >>) \o JSONStringify(obj, Tail(keys))

\* JSON.parse of such a text: an object with the members of the text, the last
\* one of a key taken
JSONParse(text) ==
    [k \in {text[i][1] : i \in 1..Len(text)} |->
        text[CHOOSE i \in 1..Len(text) :
                /\ text[i][1] = k
                /\ \A j \in (i + 1)..Len(text) : text[j][1] # k][2]]

\* A file: whether its text is JSON at all, and the members of the text
File(text) == [json |-> TRUE, text |-> text]
GarbageFile == [json |-> FALSE, text |-> << >>]
NoTransactionsFile == File(<< <<"categories", InitialCategories>> >>)
NoCategoriesFile == File(<< <<"transactions", << >> >> >>)
MinimalFile == File(<< <<"transactions", << >> >>, <<"categories", InitialCategories>> >>)

\* The files the user can pick: the last download and some files made elsewhere
Files ==
    {backupFile[i] : i \in 1..Len(backupFile)}
        \cup {GarbageFile, NoTransactionsFile, NoCategoriesFile, MinimalFile}

\* Faulty variant: only the transactions are looked for
InvalidBackupLax(d) == "transactions" \notin DOMAIN d

\* !data.transactions || !data.categories
InvalidBackup(d) == "transactions" \notin DOMAIN d \/ "categories" \notin DOMAIN d

\* Layout / Settings onToggleCollapse
onToggleCollapse ==
    /\ farm' = UpdateData(farm, [isSidebarCollapsed |->
                   IF "isSidebarCollapsed" \in DOMAIN farm
                   THEN ~farm.isSidebarCollapsed ELSE TRUE])
    /\ ev' = LedgerEvent("edit", NoArg, 0)
    /\ UNCHANGED <<backupVars, nextId>>
    /\ UNCHANGED backupOther

\* Settings onAddCategory / onDeleteCategory
onAddCategory(type) ==
    /\ transactionForm = NoModal
    /\ nextId <= MaxNewCategories
    /\ farm' = UpdateData(farm, [categories |->
                   Append(farm.categories, [id |-> nextId, type |-> type])])
    /\ nextId' = nextId + 1
    /\ ev' = LedgerEvent("edit", NoArg, 0)
    /\ UNCHANGED backupVars
    /\ UNCHANGED backupOther

onDeleteCategory(id) ==
    /\ transactionForm = NoModal
    /\ FindById(farm.categories, id) # << >>
    /\ farm' = UpdateData(farm, [categories |-> RemoveById(farm.categories, id)])
    /\ ev' = LedgerEvent("edit", NoArg, 0)
    /\ UNCHANGED <<backupVars, nextId>>
    /\ UNCHANGED backupOther

\* handleExport: the file is downloaded; the clock moves on
handleExport ==
    /\ now < MaxBackups
    /\ backupFile' = <<File(JSONStringify(BackupData(farm, user, now), BackupKeys))>>
    /\ exported' = <<farm>>
    /\ now' = now + 1
    /\ ev' = LedgerEvent("export", NoArg, now)
    /\ UNCHANGED <<farm, reading, importError, isImporting, nextId>>
    /\ UNCHANGED backupOther

\* handleImport: a file is picked and the FileReader starts reading it
handleImport(file) ==
    /\ reading = NoFile
    /\ isImporting' = TRUE
    /\ importError' = NoText
    /\ reading' = <<file>>
    /\ ev' = LedgerEvent("importStart", NoArg, 0)
    /\ UNCHANGED <<farm, backupFile, exported, now, nextId>>
    /\ UNCHANGED backupOther

\* reader.onload: parse, validate, confirm, onImportData = setData
readerOnLoad(confirm) ==
    /\ reading # NoFile
    /\ LET file == reading[1]
       IN IF ~file.json
          THEN /\ importError' = Text("Unexpected token")
               /\ ev' = LedgerEvent("importRejected", NoArg, 0)
               /\ UNCHANGED farm
          ELSE IF InvalidBackup(JSONParse(file.text))
          THEN /\ importError' = Text("Invalid backup file format.")
               /\ ev' = LedgerEvent("importRejected", NoArg, 0)
               /\ UNCHANGED farm
          ELSE IF confirm
          THEN /\ farm' = JSONParse(file.text)
               /\ ev' = LedgerEvent("imported", NoArg, 0)
               /\ UNCHANGED importError
          ELSE /\ ev' = LedgerEvent("importDeclined", NoArg, 0)
               /\ UNCHANGED <<farm, importError>>
    /\ isImporting' = FALSE
    /\ reading' = NoFile
    /\ UNCHANGED <<backupFile, exported, now, nextId>>
    /\ UNCHANGED backupOther

BackupInit ==
    /\ SyncIdle
    /\ LedgerIdle
    /\ nextId = 1
    /\ ev = LedgerEvent("", NoArg, 0)

BackupNext ==
    \/ onToggleCollapse
    \/ \E t \in TransactionType : onAddCategory(t)
    \/ \E id \in {91, 92} \cup (1..nextId) : onDeleteCategory(id)
    \/ handleExport
    \/ \E f \in Files : handleImport(f)
    \/ \E c \in BOOLEAN : readerOnLoad(c)

SpecBackup == BackupInit /\ [][BackupNext]_vars

-----------------------------------------------------------------------------
(* Dashboard: summary, performanceMetrics, debtSummary *)

MaxShown == 3
MaxDebts == 2
SlotsPerDay == 3
HorizonDays == 30
MaxClock == SlotsPerDay

\* Amounts of the transactions shown
ShownAmounts == {50, 100}

\* The browser's offset from UTC, in slots of the day: west, none, east
TimeZones == {0 - 1, 0, 1}

\* Due dates as day numbers, day 0 being the day the clock starts in
DueDates == {NoText, Text(HorizonDays), Text(HorizonDays + 1)}

\* A quotient of two numbers, kept exact
Ratio(n, d) == [num |-> n, den |-> d]
RatioLeq(a, b) == a.num * b.den <= b.num * a.den
RatioEq(a, b) == a.num * b.den = b.num * a.den
RatioMin(a, b) == IF RatioLeq(a, b) THEN a ELSE b

\* summary: transactions.reduce, INCOME into income and all else into expense
RECURSIVE summary(_)
summary(transactions) ==
    IF transactions = << >> THEN [income |-> 0, expense |-> 0]
    ELSE LET acc == summary(SubSeq(transactions, 1, Len(transactions) - 1))
             t == transactions[Len(transactions)]
         IN IF t.type = "INCOME"
            THEN [acc EXCEPT !.income = acc.income + t.amount]
            ELSE [acc EXCEPT !.expense = acc.expense + t.amount]

grossMargin(revenue, expenses) ==
    IF revenue > 0 THEN Ratio((revenue - expenses) * 100, revenue) ELSE Ratio(0, 1)

\* Faulty variant: no Math.min
breakevenProgressUncapped(revenue, expenses) ==
    IF expenses > 0 THEN Ratio(revenue * 100, expenses)
    ELSE IF revenue > 0 THEN Ratio(100, 1) ELSE Ratio(0, 1)

\* Faulty variant: nothing to cover counts as covered
breakevenProgressFull(revenue, expenses) ==
    IF expenses > 0 THEN RatioMin(Ratio(revenue * 100, expenses), Ratio(100, 1))
    ELSE Ratio(100, 1)

breakevenProgress(revenue, expenses) ==
    IF expenses > 0 THEN RatioMin(Ratio(revenue * 100, expenses), Ratio(100, 1))
    ELSE IF revenue > 0 THEN Ratio(100, 1) ELSE Ratio(0, 1)

gapToBreakeven(revenue, expenses) == Max(0, expenses - revenue)

TopCount == 3

\* categories.find(c => c.id === t.categoryId)?.name || 'Other': a property an
\* object does not have is undefined
CategoryName(categories, t) ==
    LET found == SelectSeq(categories, LAMBDA c :
                     "categoryId" \in DOMAIN t /\ c.id = t.categoryId)
    IN IF found = << >> THEN "Other"
       ELSE IF "name" \notin DOMAIN found[1] THEN "Other"
       ELSE IF found[1].name = "" THEN "Other"
       ELSE found[1].name

\* expenseData: the object the forEach over the EXPENSE transactions fills, as
\* the sequence of its properties in the order they were created
RECURSIVE expenseData(_, _)
expenseData(transactions, categories) ==
    IF transactions = << >> THEN << >>
    ELSE LET acc == expenseData(SubSeq(transactions, 1, Len(transactions) - 1), categories)
             t == transactions[Len(transactions)]
             cat == CategoryName(categories, t)
         IN IF t.type # "EXPENSE" THEN acc
            ELSE IF \E i \in 1..Len(acc) : acc[i].name = cat
            THEN [i \in 1..Len(acc) |->
                     IF acc[i].name = cat
                     THEN [acc[i] EXCEPT !.value = acc[i].value + t.amount]
                     ELSE acc[i]]
            ELSE Append(acc, [name |-> cat, value |-> t.amount])

\* The number a property name is the canonical form of, when it is one: such
\* names are array indices to an object; -1 for any other name
ArrayIndex(name) ==
    CASE name = "2024" -> 2024
      [] name = "7" -> 7
      [] OTHER -> 0 - 1

\* A stable sort: each element goes in front of the first one it must precede
StableSort(xs, Before(_, _)) ==
    LET Insert(sorted, x) ==
            LET later == {i \in 1..Len(sorted) : Before(x, sorted[i])}
                p == IF later = {} THEN Len(sorted) + 1
                     ELSE CHOOSE i \in later : \A j \in later : i <= j
            IN SubSeq(sorted, 1, p - 1) \o <<x>> \o SubSeq(sorted, p, Len(sorted))
        upTo[n \in 0..Len(xs)] == IF n = 0 THEN << >> ELSE Insert(upTo[n - 1], xs[n])
    IN upTo[Len(xs)]

\* Object.entries: properties named by array indices first, in ascending
\* order, then the others in the order they were created
ObjectEntries(obj) ==
    StableSort(SelectSeq(obj, LAMBDA e : ArrayIndex(e.name) >= 0),
               LAMBDA a, b : ArrayIndex(a.name) < ArrayIndex(b.name))
        \o SelectSeq(obj, LAMBDA e : ArrayIndex(e.name) < 0)

\* topExpenses: entries sorted by b - a, the first three
topExpenses(transactions, categories) ==
    LET sorted == StableSort(ObjectEntries(expenseData(transactions, categories)),
                             LAMBDA a, b : a.value > b.value)
    IN SubSeq(sorted, 1, Min(TopCount, Len(sorted)))

performanceMetrics(transactions, categories) ==
    LET revenue == summary(transactions).income
        expenses == summary(transactions).expense
    IN [grossMargin |-> grossMargin(revenue, expenses),
        breakevenProgress |-> breakevenProgress(revenue, expenses),
        gapToBreakeven |-> gapToBreakeven(revenue, expenses),
        topExpenses |-> topExpenses(transactions, categories)]

\* new Date(l.dueDate) of a date-only string: midnight UTC of that day, which on
\* the browser's wall clock is timeZone slots after its own midnight
DateParse(day, tz) == day * SlotsPerDay + tz

\* new Date() with setDate(now.getDate() + 30): the same time of day, 30 days on
thirtyDaysFromNow(clock) ==
    ((clock \div SlotsPerDay) + HorizonDays) * SlotsPerDay + (clock % SlotsPerDay)

\* What a liability adds to totalAmountDueSoon
DueAmount(l) ==
    IF l.installmentAmount > 0 THEN Min(l.installmentAmount, l.currentBalance)
    ELSE l.currentBalance

\* liabilities.reduce((sum, l) => sum + l.currentBalance, 0)
RECURSIVE totalOutstanding(_)
totalOutstanding(liabilities) ==
    IF liabilities = << >> THEN 0
    ELSE Head(liabilities).currentBalance + totalOutstanding(Tail(liabilities))

\* upcoming.reduce((sum, l) => sum + ..., 0)
RECURSIVE totalAmountDueSoon(_)
totalAmountDueSoon(upcoming) ==
    IF upcoming = << >> THEN 0
    ELSE DueAmount(Head(upcoming)) + totalAmountDueSoon(Tail(upcoming))

debtSummary(liabilities, clock, tz) ==
    LET upcoming == SelectSeq(liabilities, LAMBDA l :
                        /\ l.dueDate # NoText
                        /\ l.currentBalance > 0
                        /\ DateParse(l.dueDate[1], tz) <= thirtyDaysFromNow(clock))
    IN [totalOutstanding |-> totalOutstanding(liabilities),
        upcoming |-> upcoming,
        totalAmountDueSoon |-> totalAmountDueSoon(upcoming)]

\* date.setHours(0, 0, 0, 0): the midnight that begins the local day of an instant
StartOfDay(t) == (t \div SlotsPerDay) * SlotsPerDay

SoonDays == 7

\* Dashboard.getDayStatusStyles: the label of a row of the upcoming list
getDayStatusStyles(dueDate, clock, tz) ==
    LET diff == StartOfDay(DateParse(dueDate[1], tz)) - StartOfDay(clock)
        days == 0 - ((0 - diff) \div SlotsPerDay)
    IN IF days < 0 THEN [label |-> "Overdue", days |-> 0 - days]
       ELSE IF days = 0 THEN [label |-> "Due Today", days |-> 0]
       ELSE IF days <= SoonDays THEN [label |-> "Due in, amber", days |-> days]
       ELSE [label |-> "Due in, slate", days |-> days]

\* LiabilityManager.getDateStatus
getDateStatus(dueDate, balance, clock, tz) ==
    IF dueDate = NoText \/ balance <= 0 THEN "normal"
    ELSE LET due == StartOfDay(DateParse(dueDate[1], tz))
             sevenDaysFromNow ==
                 ((clock \div SlotsPerDay) + SoonDays) * SlotsPerDay + (clock % SlotsPerDay)
         IN IF due < StartOfDay(clock) THEN "overdue"
            ELSE IF due <= sevenDaysFromNow THEN "soon"
            ELSE "normal"

\* The transactions a Dashboard can be given
ShownTransactions ==
    UNION {[1..n -> [type : TransactionType, amount : ShownAmounts]] : n \in 0..MaxShown}

\* The liabilities a Dashboard can be given: ids by position
ShownLiabilities ==
    UNION {{[i \in 1..n |-> [id |-> i, name |-> "Loan", currentBalance |-> f[i].b,
                            installmentAmount |-> f[i].inst, dueDate |-> f[i].due]] :
              f \in [1..n -> [b : {0, MaxBalance}, inst : {0, 1, MaxBalance + 1},
                              due : DueDates]]} : n \in 0..MaxDebts}

\* The route "/" is shown: Dashboard mounts and computes its memos
DashboardRender ==
    /\ dashboard = NoArg
    /\ LET debt == debtSummary(farm.liabilities, now, timeZone)
       IN dashboard' = <<[performanceMetrics |-> performanceMetrics(farm.transactions, farm.categories),
                          debtSummary |-> debt,
                          dayStatus |-> [i \in 1..Len(debt.upcoming) |->
                              getDayStatusStyles(debt.upcoming[i].dueDate, now, timeZone)]]>>
    /\ ev' = LedgerEvent("render", NoArg, now)
    /\ UNCHANGED <<farm, now, timeZone, nextId>>
    /\ UNCHANGED dashOther

\* Another route is shown: Dashboard unmounts
DashboardLeave ==
    /\ dashboard # NoArg
    /\ dashboard' = NoArg
    /\ ev' = LedgerEvent("leave", NoArg, now)
    /\ UNCHANGED <<farm, now, timeZone, nextId>>
    /\ UNCHANGED dashOther

\* Time passes; a memo is not recomputed for that
ClockTick ==
    /\ now < MaxClock
    /\ now' = now + 1
    /\ ev' = LedgerEvent("tick", NoArg, now')
    /\ UNCHANGED <<farm, dashboard, timeZone, nextId>>
    /\ UNCHANGED dashOther

\* The route "/liabilities" is shown: each row gets its date status
LiabilityManagerRender ==
    /\ liabilityRows = NoArg
    /\ liabilityRows' = <<[i \in 1..Len(farm.liabilities) |->
                             getDateStatus(farm.liabilities[i].dueDate,
                                           farm.liabilities[i].currentBalance,
                                           now, timeZone)]>>
    /\ ev' = LedgerEvent("rows", NoArg, now)
    /\ UNCHANGED <<farm, now, timeZone, nextId>>
    /\ UNCHANGED rowsOther

\* Another route is shown: LiabilityManager unmounts
LiabilityManagerLeave ==
    /\ liabilityRows # NoArg
    /\ liabilityRows' = NoArg
    /\ ev' = LedgerEvent("leave", NoArg, now)
    /\ UNCHANGED <<farm, now, timeZone, nextId>>
    /\ UNCHANGED rowsOther

\* Due dates around the day the clock starts in
NearDates ==
    {NoText, Text(0 - 1), Text(0), Text(1), Text(SoonDays), Text(SoonDays + 1),
     Text(SoonDays + 2)}

\* The liabilities whose rows are shown: ids by position
RowLiabilities ==
    UNION {{[i \in 1..n |-> [id |-> i, name |-> "Loan", currentBalance |-> f[i].b,
                            installmentAmount |-> 0, dueDate |-> f[i].due]] :
              f \in [1..n -> [b : {0, MaxBalance}, due : NearDates]]} : n \in 0..MaxDebts}

DashboardFrame ==
    /\ SyncIdle
    /\ cloud = NoData
    /\ loginPull = TRUE
    /\ showPayModal = NoModal
    /\ paymentAmount = NoText
    /\ paymentCategory = NoId
    /\ paymentAccount = NoId
    /\ editingSpecies = NoModal
    /\ editingItem = NoModal
    /\ balances = << >>
    /\ transactionForm = NoModal
    /\ backupFile = NoFile
    /\ exported = NoArg
    /\ reading = NoFile
    /\ importError = NoText
    /\ isImporting = FALSE
    /\ dashboard = NoArg
    /\ liabilityRows = NoArg
    /\ nextId = 1
    /\ ev = LedgerEvent("", NoArg, 0)

MetricsInit ==
    /\ DashboardFrame
    /\ \E ts \in ShownTransactions : farm = [InitialFarm EXCEPT !.transactions = ts]
    /\ now = 0
    /\ timeZone = 0

DebtInit ==
    /\ DashboardFrame
    /\ \E ls \in ShownLiabilities : farm = [InitialFarm EXCEPT !.liabilities = ls]
    /\ now \in 0..(SlotsPerDay - 1)
    /\ timeZone \in TimeZones

DashboardNext ==
    \/ DashboardRender
    \/ DashboardLeave
    \/ ClockTick

SpecMetrics == MetricsInit /\ [][DashboardNext]_vars

SpecDebt == DebtInit /\ [][DashboardNext]_vars

MaxExpenses == 4

\* Categories with names, one of them named by a year
NamedCategories ==
    <<[id |-> 1, name |-> "Feed", type |-> "EXPENSE"],
      [id |-> 2, name |-> "Vet", type |-> "EXPENSE"],
      [id |-> 3, name |-> "Fuel", type |-> "EXPENSE"],
      [id |-> 4, name |-> "2024", type |-> "EXPENSE"],
      [id |-> 5, name |-> "Sales", type |-> "INCOME"]>>

\* A transaction of a named category, or of a category that is gone
CategorizedTransactions ==
    [type : {"EXPENSE"}, amount : ShownAmounts, categoryId : {1, 2, 3, 4, UnknownId}]
        \cup [type : {"INCOME"}, amount : {50}, categoryId : {5}]

TopInit ==
    /\ DashboardFrame
    /\ \E n \in 0..MaxExpenses : \E ts \in [1..n -> CategorizedTransactions] :
           farm = [InitialFarm EXCEPT !.transactions = ts, !.categories = NamedCategories]
    /\ now = 0
    /\ timeZone = 0

SpecTop == TopInit /\ [][DashboardNext]_vars

StatusInit ==
    /\ DashboardFrame
    /\ \E ls \in RowLiabilities : farm = [InitialFarm EXCEPT !.liabilities = ls]
    /\ now \in 0..(SlotsPerDay - 1)
    /\ timeZone \in TimeZones

StatusNext ==
    \/ DashboardRender
    \/ DashboardLeave
    \/ LiabilityManagerRender
    \/ LiabilityManagerLeave
    \/ ClockTick

SpecStatus == StatusInit /\ [][StatusNext]_vars

-----------------------------------------------------------------------------
(* TransactionPage with TransactionForm, next to the other record screens *)

formOther == <<syncOnly, cloud, loginPull, payVars, editingSpecies, editingItem, balances,
    backupVars, dashVars>>

\* categories.filter(c => c.type === type)
CategoriesOfType(categories, type) == SelectSeq(categories, LAMBDA c : c.type = type)

\* accounts.length > 0 ? accounts[0].id : ''
FirstAccount(accounts) == IF Len(accounts) > 0 THEN accounts[1].id ELSE NoId

\* Variant for comparison: the form of an edited transaction starts from the first
\* category of the type and the first account, as the form of a new transaction does
MountFormFresh(type, initialData, categories, accounts) ==
    [type |-> type, initialData |-> initialData,
     categoryId |-> IF CategoriesOfType(categories, type) # << >>
                    THEN CategoriesOfType(categories, type)[1].id ELSE NoId,
     accountId |-> FirstAccount(accounts)]

\* TransactionForm as it mounts: the initial values of useState, then the effect
\* that sets categoryId to the first category of the type when nothing is edited
MountForm(type, initialData, categories, accounts) ==
    [type |-> type, initialData |-> initialData,
     categoryId |-> IF initialData # NoModal THEN initialData[1].categoryId
                    ELSE IF CategoriesOfType(categories, type) # << >>
                         THEN CategoriesOfType(categories, type)[1].id ELSE NoId,
     accountId |-> IF initialData # NoModal THEN initialData[1].accountId
                   ELSE FirstAccount(accounts)]

\* No form of another screen is open: that screen is not mounted
OnTransactionPage == editingSpecies = NoModal /\ editingItem = NoModal

\* The Add button of TransactionPage on the route of the type: setShowForm(true)
showForm(type) ==
    /\ OnTransactionPage
    /\ transactionForm = NoModal
    /\ transactionForm' = <<MountForm(type, NoModal, farm.categories, farm.accounts)>>
    /\ ev' = LedgerEvent("showForm", NoArg, 0)
    /\ UNCHANGED <<farm, nextId>>
    /\ UNCHANGED formOther

\* TransactionPage.handleEdit on a row of the list: a form that is open already
\* keeps its state and gets the row as initialData
handleEdit(i) ==
    /\ OnTransactionPage
    /\ i \in 1..Len(farm.transactions)
    /\ "id" \in DOMAIN farm.transactions[i]
    /\ IF transactionForm = NoModal
       THEN transactionForm' = <<MountForm(farm.transactions[i].type, <<farm.transactions[i]>>,
                                           farm.categories, farm.accounts)>>
       ELSE /\ transactionForm[1].type = farm.transactions[i].type
            /\ transactionForm' =
                   <<[transactionForm[1] EXCEPT !.initialData = <<farm.transactions[i]>>]>>
    /\ ev' = LedgerEvent("handleEdit", NoArg, 0)
    /\ UNCHANGED <<farm, nextId>>
    /\ UNCHANGED formOther

\* The category select: its options are the categories of the form's type
setCategoryId(id) ==
    /\ transactionForm # NoModal
    /\ FindById(CategoriesOfType(farm.categories, transactionForm[1].type), id) # << >>
    /\ transactionForm[1].categoryId # id
    /\ transactionForm' = <<[transactionForm[1] EXCEPT !.categoryId = id]>>
    /\ ev' = LedgerEvent("setCategoryId", NoArg, 0)
    /\ UNCHANGED <<farm, nextId>>
    /\ UNCHANGED formOther

\* The account select: its options are the accounts
setAccountId(id) ==
    /\ transactionForm # NoModal
    /\ FindById(farm.accounts, id) # << >>
    /\ transactionForm[1].accountId # id
    /\ transactionForm' = <<[transactionForm[1] EXCEPT !.accountId = id]>>
    /\ ev' = LedgerEvent("setAccountId", NoArg, 0)
    /\ UNCHANGED <<farm, nextId>>
    /\ UNCHANGED formOther

\* onCancel of the form
onCancel ==
    /\ transactionForm # NoModal
    /\ transactionForm' = NoModal
    /\ ev' = LedgerEvent("onCancel", NoArg, 0)
    /\ UNCHANGED <<farm, nextId>>
    /\ UNCHANGED formOther

\* TransactionForm.handleSubmit, TransactionPage.handleSubmit and then
\* App.handleAddTransaction or App.handleUpdateTransaction. filled: description
\* and amount are typed in. The submit button is disabled without accounts.
handleSubmit(filled) ==
    /\ transactionForm # NoModal
    /\ Len(farm.accounts) > 0
    /\ LET form == transactionForm[1]
           t == [amount |-> 1, type |-> form.type, categoryId |-> form.categoryId,
                 accountId |-> form.accountId]
       IN  IF ~filled \/ form.categoryId = NoId \/ form.accountId = NoId
           THEN /\ ev' = LedgerEvent("submitRefused", NoArg, 0)
                /\ UNCHANGED <<farm, nextId, transactionForm>>
           ELSE IF form.initialData # NoModal
           THEN /\ farm' = UpdateData(farm, [transactions |->
                        ReplaceById(farm.transactions,
                                    [id |-> form.initialData[1].id] @@ t)])
                /\ transactionForm' = NoModal
                /\ ev' = LedgerEvent("updateTransaction",
                                     <<[id |-> form.initialData[1].id] @@ t>>, 0)
                /\ UNCHANGED nextId
           ELSE /\ nextId <= MaxIds
                /\ farm' = UpdateData(farm, [transactions |->
                        Append(farm.transactions, [id |-> nextId] @@ t)])
                /\ nextId' = nextId + 1
                /\ transactionForm' = NoModal
                /\ ev' = LedgerEvent("addTransaction", <<[id |-> nextId] @@ t>>, 0)
    /\ UNCHANGED formOther

\* onDelete of a row of TransactionList: App.handleDeleteTransaction
handleDeleteTransaction(id) ==
    /\ OnTransactionPage
    /\ FindById(farm.transactions, id) # << >>
    /\ farm' = UpdateData(farm, [transactions |-> RemoveById(farm.transactions, id)])
    /\ ev' = LedgerEvent("deleteTransaction", NoArg, id)
    /\ UNCHANGED <<nextId, transactionForm>>
    /\ UNCHANGED formOther

RecordsInit ==
    /\ SyncIdle
    /\ LedgerIdle
    /\ nextId = 1
    /\ ev = LedgerEvent("", NoArg, 0)

RecordsNext ==
    \/ \E type \in TransactionType : showForm(type)
    \/ \E i \in 1..MaxIds : handleEdit(i)
    \/ \E id \in 1..MaxIds \cup {91, 92} : setCategoryId(id)
    \/ \E id \in 1..MaxIds : setAccountId(id)
    \/ onCancel
    \/ \E filled \in BOOLEAN : handleSubmit(filled)
    \/ \E id \in 1..MaxIds : handleDeleteTransaction(id)
    \/ onAddAccount
    \/ \E id \in 1..MaxIds : onDeleteAccount(id)
    \/ \E type \in TransactionType : onAddCategory(type)
    \/ \E id \in 1..MaxIds \cup {91, 92} : onDeleteCategory(id)
    \/ \E name \in SpeciesNames : onAddSpecies(name)
    \/ \E i \in 1..Len(farm.animalSpecies) : handleEditSpeciesClick(farm.animalSpecies[i])
    \/ \E name \in SpeciesNames : onUpdateSpecies(name)
    \/ \E id \in 1..MaxIds : onDeleteSpecies(id)
    \/ \E id \in 1..MaxIds, type \in PopulationChange : handleRecordLog(id, type, 1)
    \/ \E name \in ItemNames : onAddItem(name)
    \/ \E id \in 1..MaxIds : onDeleteItem(id)
    \/ \E id \in 1..MaxIds, type \in MovementType : handleRecordMovement(id, type, 1)

\* The record screens of one session, one screen mounted at a time
SpecRecords == RecordsInit /\ [][RecordsNext]_vars

-----------------------------------------------------------------------------
(* Settings: the sidebar configuration *)

\* The ids of MODULE_REGISTRY, for four modules
ModuleIds == <<"dashboard", "reports", "accounts", "settings">>

\* sidebarConfig.map(item => item.id === id ? { ...item, visible: !item.visible } : item)
ToggledConfig(config, id) ==
    [i \in 1..Len(config) |->
        IF config[i].id = id THEN [config[i] EXCEPT !.visible = ~config[i].visible]
        ELSE config[i]]

\* Faulty variant: the entry is copied over its neighbour and not swapped
MovedConfigCopy(config, index, targetIndex) ==
    [config EXCEPT ![index] = config[targetIndex]]

\* const temp = newConfig[index]; newConfig[index] = newConfig[targetIndex];
\* newConfig[targetIndex] = temp
MovedConfig(config, index, targetIndex) ==
    [config EXCEPT ![index] = config[targetIndex], ![targetIndex] = config[index]]

\* direction === 'up' ? index - 1 : index + 1
TargetIndex(index, direction) == IF direction = "up" THEN index - 1 ELSE index + 1

\* Settings.toggleVisibility, then onUpdateSidebar
toggleVisibility(id) ==
    /\ farm' = UpdateData(farm, [sidebarConfig |-> ToggledConfig(farm.sidebarConfig, id)])
    /\ ev' = LedgerEvent("toggle", <<id>>, 0)
    /\ UNCHANGED <<backupVars, nextId>>
    /\ UNCHANGED backupOther

\* Settings.moveItem, then onUpdateSidebar: positions count from 1 here. The
\* buttons of the first entry (up) and of the last (down) are disabled, and
\* the handler returns early for them as well
moveItem(index, direction) ==
    /\ index \in 1..Len(farm.sidebarConfig)
    /\ IF TargetIndex(index, direction) < 1
              \/ TargetIndex(index, direction) > Len(farm.sidebarConfig)
       THEN UNCHANGED farm
       ELSE farm' = UpdateData(farm, [sidebarConfig |->
                MovedConfig(farm.sidebarConfig, index, TargetIndex(index, direction))])
    /\ ev' = LedgerEvent("move", <<direction>>, index)
    /\ UNCHANGED <<backupVars, nextId>>
    /\ UNCHANGED backupOther

SidebarInit ==
    /\ SyncIdle
    /\ farm = [InitialFarm EXCEPT !.sidebarConfig =
                  [i \in 1..Len(ModuleIds) |-> [id |-> ModuleIds[i], visible |-> TRUE]]]
    /\ cloud = NoData
    /\ loginPull = TRUE
    /\ showPayModal = NoModal
    /\ paymentAmount = NoText
    /\ paymentCategory = NoId
    /\ paymentAccount = NoId
    /\ editingSpecies = NoModal
    /\ editingItem = NoModal
    /\ balances = << >>
    /\ transactionForm = NoModal
    /\ BackupIdle
    /\ DashboardIdle
    /\ nextId = 1
    /\ ev = LedgerEvent("", NoArg, 0)

SidebarNext ==
    \/ \E i \in 1..Len(ModuleIds) : toggleVisibility(ModuleIds[i])
    \/ \E index \in 1..Len(ModuleIds), direction \in {"up", "down"} :
           moveItem(index, direction)
    \/ onToggleCollapse

\* The sidebar section of Settings
SpecSidebar == SidebarInit /\ [][SidebarNext]_vars

-----------------------------------------------------------------------------
(* The edit forms of AnimalManager and InventoryManager while the session syncs *)

EditInit ==
    /\ SyncIdle
    /\ LedgerIdle
    /\ nextId = 1
    /\ ev = LedgerEvent("", NoArg, 0)

EditNext ==
    \/ \E n \in SpeciesNames : onAddSpecies(n)
    \/ \E i \in 1..Len(farm.animalSpecies) : handleEditSpeciesClick(farm.animalSpecies[i])
    \/ \E n \in SpeciesNames : onUpdateSpecies(n)
    \/ \E id \in 1..nextId, t \in PopulationChange : handleRecordLog(id, t, 1)
    \/ \E n \in ItemNames : onAddItem(n)
    \/ \E i \in 1..Len(farm.inventoryItems) : handleEditItemClick(farm.inventoryItems[i])
    \/ \E n \in ItemNames : onUpdateItem(n)
    \/ PushSnapshot
    \/ LoginPullSnapshot

\* The species and item screens of a session whose debounced pushes and login
\* pull resolve at any time
SpecEdit == EditInit /\ [][EditNext]_vars

-----------------------------------------------------------------------------
(* Properties of the sync coordinator *)

PushStarted == Len(pushes') = Len(pushes) + 1
NewPush == pushes'[Len(pushes')]

\* No sync activity is scheduled or in flight
Quiescent == timers = {} /\ pushes = << >> /\ pulls = << >>

\* C1: debounce coalescing. At most one push is ever scheduled; a push starts only
\* for the signed-in user, only when the window has elapsed since the last
\* mutation, carries the snapshot current at that moment, which after a burst of
\* mutations is the one the last mutation produced, and leaves nothing scheduled
\* (one push per burst); a burst left alone does lead to that push.
C1_DebounceCoalescing ==
    /\ [](Cardinality(timers) <= 1)
    /\ [][PushStarted =>
            /\ user # NoUser /\ NewPush.email = user
            /\ quiet >= Debounce
            /\ NewPush.data = data
            /\ burst >= 1 => /\ data # << >>
                             /\ data[Len(data)] = nextId - 1
            /\ timers' = {}]_vars
    /\ (burst >= 1) ~> (burst = 0)

\* C1, reached: a push has just started that coalesces two mutations
C1_Witness ==
    /\ ev.op = "pushStart" /\ ev.n >= 2
    /\ pushes # << >>
    /\ Len(pushes[Len(pushes)].data) >= 2

\* C6: pull-on-login. Every sign-in issues exactly one pull for that user's email; a
\* login pull that finds a snapshot makes it the local data; one that finds none
\* leaves the default snapshot (as far as the user has not edited it meanwhile).
C6_PullOnLogin ==
    [][/\ ev'.op = "signIn" =>
            pulls' = Append(pulls, [email |-> user', kind |-> "login", live |-> FALSE])
       /\ (ev'.op = "pullDone" /\ ev'.kind = "login" /\ ev'.found) =>
            data' = remote[ev'.email][1]
       /\ (ev'.op = "pullDone" /\ ev'.kind = "login" /\ ~ev'.found
             /\ user = ev'.email /\ sessionEdits = 0) =>
            data' = DefaultData]_vars

\* C7: the indicator Layout shows is true exactly while a push or a pull is in flight
C7_SyncingIndicator == isSyncing <=> (pushes # << >> \/ pulls # << >>)

\* C8, whatever the latencies: once the sync activity of a signed-in
\* user has ended, the snapshot stored under the user's email is the local one
C8_MirrorWhenQuiescent ==
    (user # NoUser /\ Quiescent) => remote[user] = Saved(data)

\* C8, ordered completion: when pushes complete in the order they were started, the sync
\* activity of a user who stays signed in ends, and from then on the snapshot
\* stored under the user's email is the local one
C8_EventualConsistencyInOrder ==
    inOrder => <>[](user # NoUser => (Quiescent /\ remote[user] = Saved(data)))

\* C8, reached: the mirror holds a local edit after the activity has ended
C8_Witness ==
    /\ inOrder /\ user # NoUser /\ Quiescent
    /\ sessionEdits >= 1
    /\ remote[user] = Saved(data)
    /\ \E i \in 1..Len(data) : data[i] = nextId - 1

\* C9: cancellation. While nobody is signed in nothing is scheduled and no push
\* starts; a mutation replaces whatever was scheduled by one new push of the new
\* snapshot, a full window away.
C9_Cancellation ==
    /\ [](user = NoUser => timers = {})
    /\ [][user = NoUser => ~PushStarted]_vars
    /\ [][ev'.op = "mutate" =>
            \E id \in 1..2 :
                timers' = {[id |-> id, email |-> user, data |-> data', left |-> Debounce]}]_vars

\* C9, reached: a logout has just cancelled a scheduled push of an edited snapshot
C9_Witness ==
    /\ ev.op = "logout" /\ ev.found
    /\ user = NoUser /\ timers = {}
    /\ sessionEdits >= 1

\* C10: manual pull. A confirmed refresh puts a pull for the user's email in
\* flight in the same step, whatever is scheduled, and changes nothing else yet;
\* a declined one changes nothing; its completion replaces the local data by the
\* stored snapshot when there is one and leaves it unchanged when there is none.
C10_ManualPull ==
    [][/\ ev'.op = "manualPull" =>
            /\ pulls' = Append(pulls, [email |-> user, kind |-> "manual", live |-> TRUE])
            /\ UNCHANGED <<data, timers, remote>>
       /\ ev'.op = "manualPullDeclined" =>
            UNCHANGED <<data, pulls, timers, remote, pushes>>
       /\ (ev'.op = "pullDone" /\ ev'.kind = "manual") =>
            IF remote[ev'.email] # NoData
            THEN data' = remote[ev'.email][1]
            ELSE data' = data]_vars

\* C10, reached: a manual pull has just replaced a local snapshot holding an edit
\* that the stored snapshot does not have
C10_Witness ==
    /\ ev.op = "pullDone" /\ ev.kind = "manual" /\ ev.found /\ ev.changed
    /\ sessionEdits >= 1
    /\ \A i \in 1..Len(data) : data[i] # nextId - 1


-----------------------------------------------------------------------------
(* Properties of the liability payment *)

\* C2: liability payment atomicity. A recorded payment of amount a on liability
\* L appends exactly one EXPENSE transaction "Payment towards: {L.name}" of
\* amount a and, in the same step, gives the liability of L's id that is in the
\* snapshot the balance max(0, L.currentBalance - a); every other liability and
\* every other collection is as before. No other step of the reducers touches a
\* balance or the transactions: the two effects never occur apart.
C2_PaymentAtomicity ==
    [][LET L == showPayModal
           a == ev'.n
       IN /\ ev'.op = "payment" =>
              /\ L # NoModal
              /\ ev'.arg = L
              /\ Len(farm'.transactions) = Len(farm.transactions) + 1
              /\ SubSeq(farm'.transactions, 1, Len(farm.transactions)) = farm.transactions
              /\ LET t == farm'.transactions[Len(farm'.transactions)]
                 IN /\ t.type = "EXPENSE"
                    /\ t.description = PaymentDescription(L.name)
                    /\ t.amount = a
                    /\ \A i \in 1..Len(farm.transactions) : farm.transactions[i].id # t.id
              /\ Len(farm'.liabilities) = Len(farm.liabilities)
              /\ \A i \in 1..Len(farm.liabilities) :
                    IF farm.liabilities[i].id = L.id
                    THEN /\ farm'.liabilities[i].id = L.id
                         /\ farm'.liabilities[i].currentBalance
                                = Max(0, L.currentBalance - a)
                    ELSE farm'.liabilities[i] = farm.liabilities[i]
              /\ \A k \in DOMAIN farm \ {"transactions", "liabilities"} :
                    farm'[k] = farm[k]
          /\ ev'.op \notin {"payment", "pull"} =>
              /\ farm'.transactions = farm.transactions
              /\ \A i \in 1..Len(farm.liabilities) :
                    LET after == FindById(farm'.liabilities, farm.liabilities[i].id)
                    IN after # << >> => after[1] = farm.liabilities[i]
      ]_vars

\* C2, reached: a payment of a positive amount was recorded on a liability of the snapshot:
\* the balance is down by the amount and the transaction is the last one
C2_Witness ==
    /\ ev.op = "payment"
    /\ ev.n > 0
    /\ FindById(farm.liabilities, ev.arg.id) # << >>
    /\ FindById(farm.liabilities, ev.arg.id)[1].currentBalance
           = ev.arg.currentBalance - ev.n
    /\ farm.transactions # << >>
    /\ farm.transactions[Len(farm.transactions)].amount = ev.n

-----------------------------------------------------------------------------
(* Properties of the animal log *)

\* C3: every species count is >= 0 in every state reached by adding species,
\* editing species and recording logs, and each recorded log changes the count
\* of the species it references to max(0, count + quantity) for BOUGHT/BIRTH
\* and to max(0, count - quantity) for SOLD/DEATH, and no other count.
C3_CountClamped ==
    /\ [](\A i \in 1..Len(farm.animalSpecies) : farm.animalSpecies[i].count >= 0)
    /\ [][ev'.op \in PopulationChange =>
            /\ Len(farm'.animalSpecies) = Len(farm.animalSpecies)
            /\ Len(farm'.animalLogs) = Len(farm.animalLogs) + 1
            /\ \A i \in 1..Len(farm.animalSpecies) :
                  LET before == farm.animalSpecies[i].count
                      after == farm'.animalSpecies[i].count
                  IN IF farm.animalSpecies[i].id = ev'.arg.id
                     THEN IF ev'.op \in {"BOUGHT", "BIRTH"}
                          THEN after = before + ev'.n
                          ELSE after = (IF before >= ev'.n THEN before - ev'.n ELSE 0)
                     ELSE after = before
          ]_vars

\* C3, reached: a SOLD or DEATH log of more animals than the species had: the count is 0
C3_Witness ==
    /\ ev.op \in {"SOLD", "DEATH"}
    /\ ev.arg.count >= 1
    /\ ev.n > ev.arg.count
    /\ FindById(farm.animalSpecies, ev.arg.id)[1].count = 0

-----------------------------------------------------------------------------
(* Properties of the inventory movement *)

\* C4: recording an inventory movement appends it to inventoryMovements and
\* changes the quantity of the referenced item to max(0, quantity + qty) for an
\* IN movement and to max(0, quantity - qty) for an OUT movement.
C4_MovementChangesQuantity ==
    [][ev'.op \in MovementType =>
          /\ Len(farm'.inventoryMovements) = Len(farm.inventoryMovements) + 1
          /\ \A i \in 1..Len(farm.inventoryItems) :
                farm.inventoryItems[i].id = ev'.arg.id =>
                    farm'.inventoryItems[i].quantity
                        = (IF ev'.op = "IN"
                           THEN farm.inventoryItems[i].quantity + ev'.n
                           ELSE IF farm.inventoryItems[i].quantity >= ev'.n
                                THEN farm.inventoryItems[i].quantity - ev'.n
                                ELSE 0)
      ]_vars

-----------------------------------------------------------------------------
(* Properties of the account balances *)

\* The sum of the amounts of the transactions at the positions of the set I
RECURSIVE SumAt(_, _)
SumAt(ts, I) ==
    IF I = {} THEN 0
    ELSE LET i == CHOOSE j \in I : TRUE IN ts[i].amount + SumAt(ts, I \ {i})

\* The positions of the transactions of a type on an account
PositionsOf(ts, id, type) ==
    {i \in 1..Len(ts) : ts[i].accountId = id /\ ts[i].type = type}

-----------------------------------------------------------------------------
(* Properties of backup and restore *)

\* The collections, the sidebar config and the layout flag of FarmData
SnapshotKeys ==
    {"transactions", "categories", "accounts", "animalSpecies", "animalLogs",
     "inventoryItems", "inventoryMovements", "assets", "liabilities",
     "sidebarConfig", "isSidebarCollapsed"}

\* The text of a file has a member of the given key
HasMember(file, k) == \E i \in 1..Len(file.text) : file.text[i][1] = k

-----------------------------------------------------------------------------
(* Properties of the payment amount *)

\* The liability of the given id as App.data has it, if it has it
LiabilityInData(id) == FindById(farm.liabilities, id)

\* A submit of the payment form with an amount typed in and an account and an
\* expense category to choose from
PaymentSubmitted ==
    /\ ev'.op \in {"payment", "paymentBlocked"}
    /\ paymentAmount # NoText
    /\ Len(farm.accounts) > 0
    /\ Len(ExpenseCategories(farm.categories)) > 0

\* C13, capping: every submit of an amount records an EXPENSE transaction whose
\* amount is the smaller of the amount typed and the balance before the
\* payment, also when the amount typed is larger than that balance.
C13_PaymentCapped ==
    [][PaymentSubmitted =>
          /\ Len(farm'.transactions) = Len(farm.transactions) + 1
          /\ farm'.transactions[Len(farm'.transactions)].type = "EXPENSE"
          /\ farm'.transactions[Len(farm'.transactions)].amount =
                 Min(paymentAmount[1], showPayModal.currentBalance)
      ]_vars

\* C13, refusal: a recorded payment has an EXPENSE transaction of exactly the
\* amount typed, which is not larger than the balance before the payment (so it
\* is the smaller of the two); a submit of an amount larger than the balance
\* records nothing and leaves the data and the form as they were.
C13_PaymentWithinBalance ==
    [][/\ ev'.op = "payment" =>
            /\ Len(farm'.transactions) = Len(farm.transactions) + 1
            /\ farm'.transactions[Len(farm'.transactions)].type = "EXPENSE"
            /\ farm'.transactions[Len(farm'.transactions)].amount = paymentAmount[1]
            /\ paymentAmount[1] <= showPayModal.currentBalance
            /\ paymentAmount[1] = Min(paymentAmount[1], showPayModal.currentBalance)
       /\ (PaymentSubmitted /\ paymentAmount[1] > showPayModal.currentBalance) =>
            /\ ev'.op = "paymentBlocked"
            /\ farm' = farm
            /\ showPayModal' = showPayModal
            /\ paymentAmount' = paymentAmount
      ]_vars

\* C13, reached: a submit of more than the balance was blocked with the modal
\* still open on the liability, whose balance in the data is what it was
C13_Witness ==
    /\ ev.op = "paymentBlocked"
    /\ showPayModal # NoModal
    /\ paymentAmount # NoText
    /\ paymentAmount[1] > showPayModal.currentBalance
    /\ LiabilityInData(showPayModal.id) = <<showPayModal>>
    /\ Len(farm.accounts) > 0

-----------------------------------------------------------------------------
(* Properties of a sequence of animal logs *)

\* The logs recorded for a species, in the order recorded
LogsOf(id) == SelectSeq(farm.animalLogs, LAMBDA l : l.speciesId = id)

\* +quantity for BOUGHT and BIRTH, -quantity for SOLD and DEATH
SignedQuantity(l) ==
    IF l.type \in {"BOUGHT", "BIRTH"} THEN l.quantity ELSE 0 - l.quantity

RECURSIVE SignedSum(_)
SignedSum(L) == IF L = << >> THEN 0 ELSE SignedQuantity(Head(L)) + SignedSum(Tail(L))

\* The count after the logs were applied one after the other, none below 0
RECURSIVE CountAfter(_, _)
CountAfter(c, L) ==
    IF L = << >> THEN c
    ELSE CountAfter(Max(0, c + SignedQuantity(Head(L))), Tail(L))

\* No log of the sequence takes more animals than there are
RECURSIVE NeverBelowZero(_, _)
NeverBelowZero(c, L) ==
    \/ L = << >>
    \/ /\ c + SignedQuantity(Head(L)) >= 0
       /\ NeverBelowZero(c + SignedQuantity(Head(L)), Tail(L))

\* C14, one clamp at the end: the count of every species, created with count 0,
\* is max(0, 0 + sum of the signed quantities of its logs).
C14_FinalCountIsClampedSum ==
    \A i \in 1..Len(farm.animalSpecies) :
        farm.animalSpecies[i].count =
            Max(0, 0 + SignedSum(LogsOf(farm.animalSpecies[i].id)))

\* C14, a clamp at every log: the count of every species, created with count 0,
\* is what applying its logs in order gives when each log's result is clamped
\* at 0; for every initial count this is max(0, c0 + sum) when no log takes
\* more animals than there are, and never less than that.
C14_FinalCountStepwise ==
    \A i \in 1..Len(farm.animalSpecies) :
        LET L == LogsOf(farm.animalSpecies[i].id)
        IN /\ farm.animalSpecies[i].count = CountAfter(0, L)
           /\ \A c0 \in 0..MaxQuantity :
                 /\ NeverBelowZero(c0, L) => CountAfter(c0, L) = Max(0, c0 + SignedSum(L))
                 /\ CountAfter(c0, L) >= Max(0, c0 + SignedSum(L))

\* C14, reached: a species whose logs took more animals than it had and then
\* added some: its count is above max(0, sum)
C14_Witness ==
    \E i \in 1..Len(farm.animalSpecies) :
        LET L == LogsOf(farm.animalSpecies[i].id)
        IN /\ Len(L) >= 2
           /\ ~NeverBelowZero(0, L)
           /\ farm.animalSpecies[i].count > Max(0, SignedSum(L))

-----------------------------------------------------------------------------
(* Properties of the balance across payments *)

\* C15: a recorded payment never leaves the liability's currentBalance above
\* what it was before the payment, and never below 0; so across payments with
\* no manual edit in between the balance never increases and is never negative.
C15_BalanceNeverIncreases ==
    [][(ev'.op = "payment" /\ LiabilityInData(showPayModal.id) # << >>) =>
          LET before == LiabilityInData(showPayModal.id)[1].currentBalance
              after == FindById(farm'.liabilities, showPayModal.id)[1].currentBalance
          IN /\ after <= before
             /\ after >= 0
      ]_vars

-----------------------------------------------------------------------------
(* Properties of a failing transport *)

\* C16: sync transport failure. When a push or a pull rejects (login pull,
\* debounced push or manual pull), the syncing indicator of the caller is false
\* afterwards, no push, pull or timer is started by the failure and the data is
\* left alone; and a local mutation, whenever it comes, schedules a push of the
\* new data a full debounce window ahead.
C16_TransportFailure ==
    [][/\ ev'.op = "pushFailed" => ~isSyncing'
       /\ (ev'.op = "pullFailed" /\ ev'.kind = "login") => ~isSyncing'
       /\ (ev'.op = "pullFailed" /\ ev'.kind = "manual" /\ user' = ev'.email) =>
              ~settingsSyncing'
       /\ ev'.op \in {"pushFailed", "pullFailed"} =>
              /\ timers' = timers
              /\ Len(pushes') + Len(pulls') = Len(pushes) + Len(pulls) - 1
              /\ data' = data
              /\ remote' = remote
       /\ ev'.op = "mutate" =>
              \E t \in timers' : /\ t.left = Debounce
                                 /\ t.data = data'
                                 /\ t.email = user'
                                 /\ timers' = {t}
      ]_vars

-----------------------------------------------------------------------------
(* Properties of a logout *)

\* The ids of the records added since the last sign-in
SessionEditIds == (nextId - sessionEdits)..(nextId - 1)

\* The user who has just logged out, if the last step was a logout
LoggedOutUsers == IF ev.op = "logout" THEN {ev.email} ELSE Users

\* C17: local changes remain in sync across a logout. Once nobody is signed in
\* and no push or pull is scheduled or in flight, the snapshot stored under the
\* email of the user who logged out holds every record that user added before
\* confirming the logout.
C17_LogoutKeepsChangesInSync ==
    (user = NoUser /\ Quiescent /\ sessionEdits >= 1) =>
        \E u \in LoggedOutUsers :
            /\ remote[u] # NoData
            /\ \A id \in SessionEditIds :
                  \E i \in 1..Len(remote[u][1]) : remote[u][1][i] = id

-----------------------------------------------------------------------------
(* Properties of the Dashboard's figures *)

\* The total of the amounts of the transactions of one type
TotalOf(ts, type) == SumAt(ts, {i \in 1..Len(ts) : ts[i].type = type})

TotalIncome == TotalOf(farm.transactions, "INCOME")
TotalExpense == TotalOf(farm.transactions, "EXPENSE")

\* The metrics of the Dashboard shown
Shown == dashboard[1].performanceMetrics

\* A ratio is the given whole number
RatioIs(r, n) == RatioEq(r, Ratio(n, 1))

\* C18: for all non-negative total income and total expense, gross margin is
\* (income - expense) / income * 100 when income > 0 and 0 otherwise; breakeven
\* progress is min(income / expense * 100, 100) when expense > 0, otherwise 100
\* if income > 0 and 0 if income = 0; the gap to breakeven is
\* max(0, expense - income). So breakeven progress lies in 0..100, the gap is
\* never negative, income 0 with expense 100 gives margin 0, breakeven 0 and
\* gap 100, and income 100 with expense 0 gives margin 100, breakeven 100, gap 0.
C18_PerformanceMetrics ==
    dashboard # NoArg =>
        /\ IF TotalIncome > 0
           THEN Shown.grossMargin.num * TotalIncome =
                    (TotalIncome - TotalExpense) * 100 * Shown.grossMargin.den
           ELSE RatioIs(Shown.grossMargin, 0)
        /\ IF TotalExpense > 0
           THEN IF TotalIncome >= TotalExpense
                THEN RatioIs(Shown.breakevenProgress, 100)
                ELSE Shown.breakevenProgress.num * TotalExpense =
                         TotalIncome * 100 * Shown.breakevenProgress.den
           ELSE RatioIs(Shown.breakevenProgress, IF TotalIncome > 0 THEN 100 ELSE 0)
        /\ Shown.gapToBreakeven =
               (IF TotalExpense > TotalIncome THEN TotalExpense - TotalIncome ELSE 0)
        /\ Shown.grossMargin.den > 0 /\ Shown.breakevenProgress.den > 0
        /\ RatioLeq(Ratio(0, 1), Shown.breakevenProgress)
        /\ RatioLeq(Shown.breakevenProgress, Ratio(100, 1))
        /\ Shown.gapToBreakeven >= 0
        /\ (TotalIncome = 0 /\ TotalExpense = 100) =>
               /\ RatioIs(Shown.grossMargin, 0)
               /\ RatioIs(Shown.breakevenProgress, 0)
               /\ Shown.gapToBreakeven = 100
        /\ (TotalIncome = 100 /\ TotalExpense = 0) =>
               /\ RatioIs(Shown.grossMargin, 100)
               /\ RatioIs(Shown.breakevenProgress, 100)
               /\ Shown.gapToBreakeven = 0

\* C18, reached: income above expense, both positive: the progress is capped at
\* 100 and the margin is between 0 and 100
C18_Witness ==
    /\ dashboard # NoArg
    /\ TotalIncome = 150 /\ TotalExpense = 100
    /\ RatioIs(Shown.breakevenProgress, 100)
    /\ Shown.grossMargin.num * 3 = 100 * Shown.grossMargin.den
    /\ Shown.gapToBreakeven = 0

\* C19, full progress: with no transactions, total income 0 and total expense 0,
\* gross margin is 0 and breakeven progress is 100.
C19_NoTransactionsFullProgress ==
    (dashboard # NoArg /\ TotalIncome = 0 /\ TotalExpense = 0) =>
        /\ RatioIs(Shown.grossMargin, 0)
        /\ RatioIs(Shown.breakevenProgress, 100)

\* C19, no progress: with no transactions, total income 0 and total expense 0,
\* gross margin is 0 and breakeven progress is 0.
C19_NoTransactionsNoProgress ==
    (dashboard # NoArg /\ TotalIncome = 0 /\ TotalExpense = 0) =>
        /\ RatioIs(Shown.grossMargin, 0)
        /\ RatioIs(Shown.breakevenProgress, 0)
        /\ Shown.gapToBreakeven = 0

\* C19, reached: the Dashboard is shown with no transactions
C19_Witness ==
    /\ dashboard # NoArg
    /\ farm.transactions = << >>
    /\ RatioIs(Shown.breakevenProgress, 0)

\* The day the clock is in
Today(clock) == clock \div SlotsPerDay

\* The liabilities with a balance that are due on or before the day 30 days
\* after the given one
DueWithin(liabilities, day) ==
    SelectSeq(liabilities, LAMBDA l :
        /\ l.currentBalance > 0
        /\ l.dueDate # NoText
        /\ l.dueDate[1] <= day + HorizonDays)

\* C20: due-soon filter. The upcoming liabilities of a Dashboard, whatever the
\* time of day it is rendered at, are exactly the liabilities with
\* currentBalance > 0 and a due date on or before today + 30 days by calendar
\* date: none with balance 0, one due in exactly 30 days is in, one due in 31
\* days is out; totalAmountDueSoon is the sum over them of
\* min(installmentAmount, currentBalance) when installmentAmount > 0 and of
\* currentBalance otherwise.
C20_DueSoon ==
    [][ev'.op = "render" =>
          LET shown == dashboard'[1].debtSummary
              due == DueWithin(farm.liabilities, Today(now))
          IN /\ shown.upcoming = due
             /\ \A i \in 1..Len(shown.upcoming) : shown.upcoming[i].currentBalance > 0
             /\ shown.totalAmountDueSoon =
                    SumAt([i \in 1..Len(due) |->
                              [amount |-> IF due[i].installmentAmount > 0
                                          THEN Min(due[i].installmentAmount,
                                                   due[i].currentBalance)
                                          ELSE due[i].currentBalance]],
                          1..Len(due))
      ]_vars

-----------------------------------------------------------------------------
(* Properties of the due-date status *)

\* How many days after today a day is
DaysAhead(day, clock) == day - Today(clock)

\* The status of a due date by calendar date
DueStatus(day, clock) ==
    IF DaysAhead(day, clock) < 0 THEN "OVERDUE"
    ELSE IF DaysAhead(day, clock) = 0 THEN "DUE_TODAY"
    ELSE IF DaysAhead(day, clock) <= SoonDays THEN "DUE_SOON"
    ELSE "NORMAL"

\* The status a label of the Dashboard stands for
StatusOfLabel(l) ==
    CASE l.label = "Overdue" -> "OVERDUE"
      [] l.label = "Due Today" -> "DUE_TODAY"
      [] l.label = "Due in, amber" -> "DUE_SOON"
      [] OTHER -> "NORMAL"

\* The statuses a row status of LiabilityManager stands for: it has one flag
\* for today and the seven days ahead
StatusesOfRow(r) ==
    CASE r = "overdue" -> {"OVERDUE"}
      [] r = "soon" -> {"DUE_TODAY", "DUE_SOON"}
      [] OTHER -> {"NORMAL"}

\* C21: due-date status. For a liability with balance > 0 and a due date the
\* status shown, on the Dashboard and in the rows of LiabilityManager, is
\* OVERDUE when the date is before today, DUE_TODAY when it is today, DUE_SOON
\* when it is 1 to 7 days ahead and NORMAL when it is further ahead, by calendar
\* date at every time of day; a row with balance <= 0 is never flagged.
C21_DueDateStatus ==
    [][/\ ev'.op = "render" =>
            LET shown == dashboard'[1]
            IN \A i \in 1..Len(shown.debtSummary.upcoming) :
                  StatusOfLabel(shown.dayStatus[i]) =
                      DueStatus(shown.debtSummary.upcoming[i].dueDate[1], now)
       /\ ev'.op = "rows" =>
            \A i \in 1..Len(farm.liabilities) :
                LET l == farm.liabilities[i]
                IN IF l.currentBalance <= 0 \/ l.dueDate = NoText
                   THEN liabilityRows'[1][i] = "normal"
                   ELSE DueStatus(l.dueDate[1], now) \in StatusesOfRow(liabilityRows'[1][i])
      ]_vars

-----------------------------------------------------------------------------
(* Properties of the top expense categories *)

\* The name an EXPENSE transaction is grouped under
GroupOf(t) ==
    IF \E i \in 1..Len(farm.categories) : farm.categories[i].id = t.categoryId
    THEN (CHOOSE c \in {farm.categories[i] : i \in 1..Len(farm.categories)} :
              c.id = t.categoryId).name
    ELSE "Other"

\* The positions of the EXPENSE transactions of a group
GroupPositions(name) ==
    {i \in 1..Len(farm.transactions) :
        /\ farm.transactions[i].type = "EXPENSE"
        /\ GroupOf(farm.transactions[i]) = name}

GroupNames ==
    {GroupOf(farm.transactions[i]) :
        i \in {j \in 1..Len(farm.transactions) : farm.transactions[j].type = "EXPENSE"}}

GroupValue(name) == SumAt(farm.transactions, GroupPositions(name))

\* The position of the first transaction of a group
FirstOf(name) == CHOOSE i \in GroupPositions(name) : \A j \in GroupPositions(name) : i <= j

\* The result has one entry for each of the given number of groups, each with
\* the sum of its group, in non-increasing order, no omitted group larger than
\* a returned one
TopByValue(top) ==
    /\ Len(top) = Min(TopCount, Cardinality(GroupNames))
    /\ \A i \in 1..Len(top) : top[i].name \in GroupNames
                              /\ top[i].value = GroupValue(top[i].name)
    /\ \A i, j \in 1..Len(top) : i # j => top[i].name # top[j].name
    /\ \A i, j \in 1..Len(top) : i < j => top[i].value >= top[j].value
    /\ \A g \in GroupNames :
          (\A i \in 1..Len(top) : top[i].name # g) =>
              \A i \in 1..Len(top) : top[i].value >= GroupValue(g)

\* C22: top expense categories. The result groups only the EXPENSE transactions
\* by the name of their category, those of no category under "Other", sums the
\* amounts per group and returns at most 3 groups in non-increasing order of
\* value, no omitted group being larger than a returned one; groups of equal
\* value keep the order in which they were first encountered.
C22_TopExpenses ==
    dashboard # NoArg =>
        LET top == dashboard[1].performanceMetrics.topExpenses
        IN /\ TopByValue(top)
           /\ \A i, j \in 1..Len(top) :
                 (i < j /\ top[i].value = top[j].value) =>
                     FirstOf(top[i].name) < FirstOf(top[j].name)
           /\ \A g \in GroupNames :
                 (\A i \in 1..Len(top) : top[i].name # g) =>
                     \A i \in 1..Len(top) :
                         top[i].value = GroupValue(g) => FirstOf(top[i].name) < FirstOf(g)

-----------------------------------------------------------------------------
(* Deleting an entity that records refer to *)

\* TransactionList: account?.name || 'Unknown Account'
AccountLabel(accounts, t) ==
    LET account == FindById(accounts, t.accountId)
    IN IF account = << >> THEN "Unknown Account" ELSE account[1].name

\* TransactionList: category?.name || 'Uncategorized'
CategoryLabel(categories, t) ==
    LET category == FindById(categories, t.categoryId)
    IN IF category = << >> THEN "Uncategorized"
       ELSE IF "name" \notin DOMAIN category[1] THEN "Uncategorized"
       ELSE category[1].name

\* AnimalManager, the log table: item?.name || 'Archived Species'
SpeciesLabel(species, log) ==
    LET item == FindById(species, log.speciesId)
    IN IF item = << >> THEN "Archived Species" ELSE item[1].name

\* InventoryManager, the movement table: item?.name || 'Deleted Product'
ItemLabel(items, movement) ==
    LET item == FindById(items, movement.itemId)
    IN IF item = << >> THEN "Deleted Product" ELSE item[1].name

EntityCollections == {"accounts", "categories", "animalSpecies", "inventoryItems"}

IdsOf(xs) == {xs[i].id : i \in 1..Len(xs)}

\* The records that refer to an id that the collection no longer has are shown
\* with the fallback label
DanglingShown(f) ==
    /\ \A i \in 1..Len(f.transactions) :
           /\ f.transactions[i].accountId \notin IdsOf(f.accounts)
                  => AccountLabel(f.accounts, f.transactions[i]) = "Unknown Account"
           /\ f.transactions[i].categoryId \notin IdsOf(f.categories)
                  => CategoryLabel(f.categories, f.transactions[i]) = "Uncategorized"
    /\ \A i \in 1..Len(f.animalLogs) :
           f.animalLogs[i].speciesId \notin IdsOf(f.animalSpecies)
               => SpeciesLabel(f.animalSpecies, f.animalLogs[i]) = "Archived Species"
    /\ \A i \in 1..Len(f.inventoryMovements) :
           f.inventoryMovements[i].itemId \notin IdsOf(f.inventoryItems)
               => ItemLabel(f.inventoryItems, f.inventoryMovements[i]) = "Deleted Product"

\* C23: a step that deletes an account, a category, a species or an inventory
\* item removes exactly one record from that collection and leaves every other
\* collection as it was, the transactions, animal logs and inventory movements
\* that refer to the deleted entity included; the records that refer to an
\* entity that is gone are shown with the fallback label.
C23_DeleteDoesNotCascade ==
    [][\A key \in EntityCollections :
           Len(farm'[key]) < Len(farm[key]) =>
               /\ \E i \in 1..Len(farm[key]) : farm'[key] = RemoveAt(farm[key], i)
               /\ DOMAIN farm' = DOMAIN farm
               /\ \A k \in DOMAIN farm \ {key} : farm'[k] = farm[k]
               /\ DanglingShown(farm')]_vars

\* C23, reached: a transaction whose account and category have both been deleted
C23_Witness ==
    \E i \in 1..Len(farm.transactions) :
        /\ farm.transactions[i].accountId \notin IdsOf(farm.accounts)
        /\ farm.transactions[i].categoryId \notin IdsOf(farm.categories)
        /\ AccountLabel(farm.accounts, farm.transactions[i]) = "Unknown Account"
        /\ CategoryLabel(farm.categories, farm.transactions[i]) = "Uncategorized"

\* A log of a deleted species, a movement of a deleted item
ArchivedSpeciesShown ==
    \E i \in 1..Len(farm.animalLogs) :
        SpeciesLabel(farm.animalSpecies, farm.animalLogs[i]) = "Archived Species"
DeletedProductShown ==
    \E i \in 1..Len(farm.inventoryMovements) :
        ItemLabel(farm.inventoryItems, farm.inventoryMovements[i]) = "Deleted Product"

-----------------------------------------------------------------------------
(* The references of a transaction when it enters the snapshot *)

\* The transaction refers to a category of the snapshot that has its type, and
\* to an account of the snapshot
EntryValid(t, f) ==
    /\ \E i \in 1..Len(f.categories) :
           f.categories[i].id = t.categoryId /\ f.categories[i].type = t.type
    /\ t.accountId \in IdsOf(f.accounts)

\* The transaction that the last step put into the snapshot
Entered(t) ==
    /\ ev.op \in {"addTransaction", "updateTransaction"}
    /\ ev.arg = <<t>>
    /\ \E i \in 1..Len(farm.transactions) : farm.transactions[i] = t

\* C24: a transaction that the transaction form has just added to the snapshot
\* or replaced in it refers to a category that exists and has the type of the
\* transaction, and to an account that exists.
C24_EntryTimeValidity ==
    \A i \in 1..Len(farm.transactions) :
        Entered(farm.transactions[i]) => EntryValid(farm.transactions[i], farm)

\* The same for the transactions that the form adds: it holds
AddedTransactionsValid ==
    \A i \in 1..Len(farm.transactions) :
        (Entered(farm.transactions[i]) /\ ev.op = "addTransaction")
            => EntryValid(farm.transactions[i], farm)

\* An edited transaction has entered the snapshot
UpdatedTransactionEntered ==
    \E i \in 1..Len(farm.transactions) :
        Entered(farm.transactions[i]) /\ ev.op = "updateTransaction"

-----------------------------------------------------------------------------
(* Isolation between the users of one browser *)

RecordsOf(slot) == IF slot = NoData THEN {} ELSE {slot[1][i] : i \in 1..Len(slot[1])}

\* The records that the store held under the other emails when the application
\* started: data of the other users
ForeignRecords(u) == UNION {RecordsOf(StoredData(v)) : v \in Users \ {u}}

\* C25: no snapshot stored under a user's email holds a record of another
\* user's snapshot: what is pushed under an email is made of the default
\* snapshot, of what was pulled from that email's key and of the mutations of
\* that user's sessions.
C25_Isolation ==
    \A u \in Users : RecordsOf(remote[u]) \cap ForeignRecords(u) = {}

-----------------------------------------------------------------------------
(* The first push of a session and the session's login pull *)

\* The login pull of the session has not been applied yet
LoginPullInFlight == \E i \in 1..Len(pulls) : pulls[i].kind = "login"

\* C26: in a session, no push writes to the store before the login pull of the
\* session has been applied to the local data, whatever the latency of the
\* pull. Stated for the first session of the application (one sign-in and no
\* other command so far), where every push and every pull is of that session.
C26_NoPushBeforeHydration ==
    (ops = 1 /\ ev.op = "pushDone") => ~LoginPullInFlight

\* The stored snapshot of the user has been replaced by the data the
\* application started with
OverwrittenByDefault ==
    /\ ops = 1
    /\ LoginPullInFlight
    /\ StoredData(user) # NoData
    /\ remote[user] = Saved(DefaultData)

-----------------------------------------------------------------------------
(* The collections of the snapshot under add, update and delete *)

Collections ==
    {"transactions", "categories", "accounts", "animalSpecies", "animalLogs",
     "inventoryItems", "inventoryMovements", "assets", "liabilities"}

\* new is old with one record more at the end, whose id no record of old has
IsAppend(old, new) ==
    /\ Len(new) = Len(old) + 1
    /\ \A i \in 1..Len(old) : new[i] = old[i]
    /\ new[Len(new)].id \notin IdsOf(old)

\* new is old with the records of one id replaced by a record of that id, every
\* other record and every position kept
IsReplace(old, new) ==
    /\ Len(new) = Len(old)
    /\ \E id \in IdsOf(old) :
           /\ Cardinality({i \in 1..Len(old) : old[i].id = id}) = 1
           /\ \A i \in 1..Len(old) :
                  IF old[i].id = id THEN new[i].id = id ELSE new[i] = old[i]

\* new is old without the records of one id, the others in their order
IsDelete(old, new) ==
    \E id \in IdsOf(old) :
        LET kept == {i \in 1..Len(old) : old[i].id # id}
        IN /\ Len(new) = Cardinality(kept)
           /\ \A i \in kept :
                  new[Cardinality({j \in kept : j <= i})] = old[i]

\* C27: a step of an add, update or delete callback changes one collection of
\* the snapshot and no other key: an add appends one record with a fresh id
\* and keeps the records there were, an update replaces the one record of the
\* id in place, a delete takes out the records of the id; an update for an id
\* that no record has changes nothing. The step of handleRecordAnimalLog,
\* which is not such a callback, is the one that changes animalLogs.
C27_CollectionUpdatesById ==
    [][/\ (farm' # farm /\ farm'.animalLogs = farm.animalLogs) =>
              /\ DOMAIN farm' = DOMAIN farm
              /\ \E key \in Collections :
                     /\ \A k \in DOMAIN farm \ {key} : farm'[k] = farm[k]
                     /\ \/ IsAppend(farm[key], farm'[key])
                        \/ IsReplace(farm[key], farm'[key])
                        \/ IsDelete(farm[key], farm'[key])
       /\ ev'.op = "addTransaction" =>
              /\ IsAppend(farm.transactions, farm'.transactions)
              /\ farm'.transactions[Len(farm'.transactions)] = ev'.arg[1]
       /\ ev'.op = "updateTransaction" =>
              /\ Len(farm'.transactions) = Len(farm.transactions)
              /\ \A i \in 1..Len(farm.transactions) :
                     farm'.transactions[i] =
                         IF farm.transactions[i].id = ev'.arg[1].id
                         THEN ev'.arg[1] ELSE farm.transactions[i]
              /\ ev'.arg[1].id \notin IdsOf(farm.transactions) => farm' = farm
       /\ ev'.op = "updateSpecies" =>
              \/ IsReplace(farm.animalSpecies, farm'.animalSpecies)
              \/ farm' = farm
       /\ ev'.op = "deleteTransaction" =>
              /\ IsDelete(farm.transactions, farm'.transactions)
              /\ ev'.n \notin IdsOf(farm'.transactions)]_vars

\* C27, reached: of two species the first has been updated, the second is as it
\* was added
C27_Witness ==
    /\ ev.op = "updateSpecies"
    /\ Len(farm.animalSpecies) = 2
    /\ farm.animalSpecies[1].id = ev.arg.id
    /\ farm.animalSpecies[1].name # ev.arg.name
    /\ farm.animalSpecies[2].id # ev.arg.id

\* An update was submitted for a transaction that had been deleted meanwhile
UpdateOfDeleted ==
    /\ ev.op = "updateTransaction"
    /\ ev.arg[1].id \notin IdsOf(farm.transactions)

-----------------------------------------------------------------------------
(* The count of a species and the quantity of an item under add and edit *)

\* The count of the species of the id, the quantity of the item of the id
CountOf(f, id) == FindById(f.animalSpecies, id)[1].count
QuantityOf(f, id) == FindById(f.inventoryItems, id)[1].quantity

\* Every species and item that the step adds starts at 0
AddedStartAtZero ==
    /\ \A i \in 1..Len(farm'.animalSpecies) :
           farm'.animalSpecies[i].id \notin IdsOf(farm.animalSpecies)
               => (ev'.op = "pull" \/ farm'.animalSpecies[i].count = 0)
    /\ \A i \in 1..Len(farm'.inventoryItems) :
           farm'.inventoryItems[i].id \notin IdsOf(farm.inventoryItems)
               => (ev'.op = "pull" \/ farm'.inventoryItems[i].quantity = 0)

\* C28: a species is added with count 0 and an item with quantity 0, and the
\* step that saves the edit form of a species or of an item leaves the count
\* of every species and the quantity of every item as it was.
C28_EditKeepsCount ==
    [][/\ AddedStartAtZero
       /\ ev'.op \in {"updateSpecies", "updateItem"} =>
              /\ \A id \in IdsOf(farm.animalSpecies) :
                     /\ id \in IdsOf(farm'.animalSpecies)
                     /\ CountOf(farm', id) = CountOf(farm, id)
              /\ \A id \in IdsOf(farm.inventoryItems) :
                     /\ id \in IdsOf(farm'.inventoryItems)
                     /\ QuantityOf(farm', id) = QuantityOf(farm, id)]_vars

\* An edit of a species has been saved after a log of that species was recorded
EditedAfterLog ==
    /\ ev.op = "updateSpecies"
    /\ \E i \in 1..Len(farm.animalLogs) : farm.animalLogs[i].speciesId = ev.arg.id
    /\ ev.arg.id \in IdsOf(farm.animalSpecies)
    /\ CountOf(farm, ev.arg.id) > 0

-----------------------------------------------------------------------------
(* The collections of the local snapshot *)

\* The keys of FarmData that the screens iterate over
RequiredCollections ==
    {"transactions", "categories", "accounts", "animalSpecies", "animalLogs",
     "inventoryItems", "inventoryMovements", "assets", "liabilities",
     "sidebarConfig"}

\* C29: in every reachable state, also after an accepted import, the local
\* snapshot has every collection of FarmData.
C29_SnapshotWellFormed == RequiredCollections \subseteq DOMAIN farm

\* A backup made by handleExport has been restored
ExportRestored ==
    /\ ev.op = "imported"
    /\ backupFile # NoFile
    /\ RequiredCollections \subseteq DOMAIN farm

-----------------------------------------------------------------------------
(* The sidebar configuration under toggles and moves *)

\* C30: every step keeps the module ids of sidebarConfig, each exactly once; a
\* move swaps the entry with the neighbour in the given direction, both with
\* their visible flags, and leaves the other entries where they were; a move
\* up of the first entry or down of the last changes nothing; a toggle flips
\* the visible flag of the entry of the id and of no other, and toggling that
\* entry again gives the configuration back.
C30_SidebarConfig ==
    [][LET old == farm.sidebarConfig
           new == farm'.sidebarConfig
           n == Len(old)
       IN  /\ Len(new) = n
           /\ IdsOf(new) = IdsOf(old)
           /\ Cardinality(IdsOf(new)) = n
           /\ ev'.op = "move" =>
                  LET i == ev'.n
                      t == IF ev'.arg = <<"up">> THEN i - 1 ELSE i + 1
                  IN IF t < 1 \/ t > n
                     THEN farm' = farm
                     ELSE /\ new[i] = old[t]
                          /\ new[t] = old[i]
                          /\ \A j \in (1..n) \ {i, t} : new[j] = old[j]
           /\ ev'.op = "toggle" =>
                  /\ \A j \in 1..n :
                         /\ new[j].id = old[j].id
                         /\ new[j].visible = IF <<old[j].id>> = ev'.arg
                                             THEN ~old[j].visible ELSE old[j].visible
                  /\ ToggledConfig(new, ev'.arg[1]) = old]_vars

\* C30, reached: after a move the first module is no longer the first, and a
\* module is hidden
C30_Witness ==
    /\ ev.op = "move"
    /\ farm.sidebarConfig[1].id # ModuleIds[1]
    /\ \E j \in 1..Len(farm.sidebarConfig) : ~farm.sidebarConfig[j].visible

=========================================================================
